---- MODULE Spec2Model ----
(***************************************************************************)
(* Model of meraki-status: the office monitor (monitor/monitor.py: the     *)
(* per-office debounce machine of probe_office and OfficeManager.reconcile)*)
(* and the SLA store (api/app.py: upsert_office, ingest_state_change,      *)
(* ingest_tick over the offices, state_changes and samples tables).        *)
(***************************************************************************)
EXTENDS Integers, Sequences, FiniteSets, TLC

VARIABLES
    offices,        \* OfficeManager.offices: name -> Office
    tasks,          \* OfficeManager.tasks: name -> probe task (id, position, post in flight)
    hashes,         \* OfficeManager._hashes: name -> content hash
    cancelled,      \* ids of the probe tasks on which cancel() was called
    next_tid,       \* id the next created probe task gets
    rc,             \* the task running reconcile: position, branch taken, rest of the
                    \* loop, post awaited, snapshot being reconciled
    hist,           \* per live office, the samples its probe task has classified so far
    now,            \* time.time() in whole seconds
    budget,         \* probe cycles / configuration reloads / API calls left in this run
    db_offices,     \* table offices, in rowid order
    state_changes,  \* table state_changes, in rowid order
    samples,        \* table samples, in rowid order
    resp,           \* the response to the last API call
    limiter,        \* the asyncio.Semaphore of run(): free slots and queue of waiters
    pings,          \* probe task id -> position of its three limited_ping tasks
    oneshot,        \* the one-shot pass of run(once=True)
    ticker,         \* the broadcaster task of run(): position, post in flight
    ingestor,       \* the Ingestor: whether its session is open
    pj,             \* the last call of Ingestor.post_json that ended
    watcher,        \* the task running watch_offices_yaml: position, last_mtime
    file,           \* the configuration file: whether it exists, its mtime, its content
    orphans         \* probe task id -> the task of a removed office after cancel()

ext_vars == <<limiter, pings, oneshot, ticker, ingestor, pj, watcher, file, orphans>>
mon_vars == <<offices, tasks, hashes, cancelled, next_tid, rc, hist, now,
              limiter, pings, oneshot, ticker, ingestor, pj, watcher, file, orphans>>
store_vars == <<db_offices, state_changes, samples, resp>>
vars == <<offices, tasks, hashes, cancelled, next_tid, rc, hist, now, budget,
          db_offices, state_changes, samples, resp,
          limiter, pings, oneshot, ticker, ingestor, pj, watcher, file, orphans>>

(***************************************************************************)
(* Bounds of the model.                                                    *)
(***************************************************************************)
MaxRetries == 2          \* thresholds range over 1..MaxRetries in SpecDebounce
MaxCycles == 7           \* probe cycles of a SpecDebounce run
MaxMonCycles == 2        \* probe cycles of a SpecMonitor run
MaxReloads == 3          \* reconcile calls of a SpecMonitor run
MaxCalls == 4            \* API calls of a SpecStore run
MaxTs == 2               \* state-change events are stamped 0..MaxTs
MaxSlaCalls == 5         \* API calls of a SpecSla run, the query included
MaxCapacity == 3         \* ping_concurrency ranges over 1..MaxCapacity in SpecLimiter
MaxLimCycles == 2        \* probe cycles of a SpecLimiter run
MaxLimReloads == 1       \* reconcile calls of a SpecLimiter run
MaxDeliveryCycles == 3   \* probe cycles of a SpecDelivery run
MaxClockCycles == 4      \* probe cycles of a SpecClock run
MaxNow == 3              \* the clock of SpecClock runs from 0 to MaxNow
MaxWatchCycles == 1      \* probe cycles of a SpecWatch run
MaxWatchReloads == 3     \* reconcile calls of the watcher in a SpecWatch run
MaxMtime == 3            \* offices.yaml is rewritten until its mtime is MaxMtime
MaxRemCycles == 1        \* probe cycles of a SpecRemoval run
MaxRemReloads == 2       \* reconcile calls of a SpecRemoval run
MaxFairCapacity == 2     \* ping_concurrency ranges over 1..MaxFairCapacity in SpecFair
MaxFairCycles == 2       \* probe cycles of a SpecFair run
MaxPipeCycles == 1       \* probe cycles of a SpecPipeline run
MaxPipeReloads == 2      \* reconcile calls of a SpecPipeline run, the initial one included
MaxPipeSamples == 2      \* the ticker posts while samples holds fewer rows
MaxReloadCycles == 1     \* probe cycles of a SpecReload run
MaxReloadCalls == 3      \* reconcile calls of a SpecReload run

(***************************************************************************)
(* Dictionaries (Python dict, YAML mapping) are functions on their keys.   *)
(***************************************************************************)
EmptyDict == [k \in {} |-> 0]

Get(d, k, default) == IF k \in DOMAIN d THEN d[k] ELSE default

Put(d, k, v) == [x \in (DOMAIN d) \cup {k} |-> IF x = k THEN v ELSE d[x]]

Drop(d, ks) == [x \in (DOMAIN d) \ ks |-> d[x]]

\* {**a, **b} for dicts without a common key
Merge(a, b) == [k \in (DOMAIN a) \cup (DOMAIN b) |-> IF k \in DOMAIN a THEN a[k] ELSE b[k]]

\* str() of an integer configuration value (str() of a string is the string)
Str(v) == ToString(v)

None == [path |-> "none"]

(***************************************************************************)
(* monitor.py: Office, instant_state, the debounce step of probe_office.   *)
(***************************************************************************)
DefaultRetriesDown == 2
DefaultRetriesUp == 1
DefaultPingConcurrency == 20

_office_default(f) == IF f = "retries_down" THEN DefaultRetriesDown ELSE DefaultRetriesUp

\* Office(**rec), created at time t
NewOffice(rec, t) ==
    [name |-> rec.name,
     gateway_ip |-> rec.gateway_ip,
     mx_ip |-> rec.mx_ip,
     tunnel_probe_ip |-> rec.tunnel_probe_ip,
     retries_down |-> Get(rec, "retries_down", DefaultRetriesDown),
     retries_up |-> Get(rec, "retries_up", DefaultRetriesUp),
     state |-> "unknown",
     fail_streak |-> 0,
     ok_streak |-> 0,
     last_change |-> t,
     last_sample |-> EmptyDict]

\* a plausible slip: the site counts as reachable only when both answer
instant_state_both(gw, mx, ipsec) ==
    IF gw /\ mx THEN (IF ipsec THEN "up" ELSE "degraded") ELSE "down"

instant_state(gw, mx, ipsec) ==
    IF gw \/ mx THEN (IF ipsec THEN "up" ELSE "degraded") ELSE "down"

\* a plausible slip: the commit test of both branches is strict
DebounceStrict(o, new_state, t) ==
    IF new_state = o.state
    THEN [office |-> [o EXCEPT !.ok_streak = @ + 1, !.fail_streak = 0],
          changed |-> FALSE]
    ELSE IF new_state \in {"down", "degraded"} /\ o.state \in {"up", "unknown"}
    THEN IF o.fail_streak + 1 > o.retries_down
         THEN [office |-> [o EXCEPT !.state = new_state, !.fail_streak = 0,
                                    !.ok_streak = 0, !.last_change = t],
               changed |-> TRUE]
         ELSE [office |-> [o EXCEPT !.fail_streak = @ + 1], changed |-> FALSE]
    ELSE IF o.ok_streak + 1 > o.retries_up
         THEN [office |-> [o EXCEPT !.state = new_state, !.ok_streak = 0,
                                    !.fail_streak = 0, !.last_change = t],
               changed |-> TRUE]
         ELSE [office |-> [o EXCEPT !.ok_streak = @ + 1], changed |-> FALSE]

\* a plausible slip: the commit of a failure leaves the success streak as it is
DebounceKeepsStreak(o, new_state, t) ==
    IF new_state = o.state
    THEN [office |-> [o EXCEPT !.ok_streak = @ + 1, !.fail_streak = 0],
          changed |-> FALSE]
    ELSE IF new_state \in {"down", "degraded"} /\ o.state \in {"up", "unknown"}
    THEN IF o.fail_streak + 1 >= o.retries_down
         THEN [office |-> [o EXCEPT !.state = new_state, !.fail_streak = 0,
                                    !.last_change = t],
               changed |-> TRUE]
         ELSE [office |-> [o EXCEPT !.fail_streak = @ + 1], changed |-> FALSE]
    ELSE IF o.ok_streak + 1 >= o.retries_up
         THEN [office |-> [o EXCEPT !.state = new_state, !.ok_streak = 0,
                                    !.fail_streak = 0, !.last_change = t],
               changed |-> TRUE]
         ELSE [office |-> [o EXCEPT !.ok_streak = @ + 1], changed |-> FALSE]

\* the "debounce" block of probe_office: the office after the step, and `changed`
Debounce(o, new_state, t) ==
    IF new_state = o.state
    THEN [office |-> [o EXCEPT !.ok_streak = @ + 1, !.fail_streak = 0],
          changed |-> FALSE]
    ELSE IF new_state \in {"down", "degraded"} /\ o.state \in {"up", "unknown"}
    THEN IF o.fail_streak + 1 >= o.retries_down
         THEN [office |-> [o EXCEPT !.state = new_state, !.fail_streak = 0,
                                    !.ok_streak = 0, !.last_change = t],
               changed |-> TRUE]
         ELSE [office |-> [o EXCEPT !.fail_streak = @ + 1], changed |-> FALSE]
    ELSE IF o.ok_streak + 1 >= o.retries_up
         THEN [office |-> [o EXCEPT !.state = new_state, !.ok_streak = 0,
                                    !.fail_streak = 0, !.last_change = t],
               changed |-> TRUE]
         ELSE [office |-> [o EXCEPT !.ok_streak = @ + 1], changed |-> FALSE]

\* office.last_sample = {"gateway": gw, "mx": mx, "ipsec": ipsec, "ts": int(time.time())}
Sample(gw, mx, ipsec, t) == [gateway |-> gw, mx |-> mx, ipsec |-> ipsec, ts |-> t]

\* the body of the /ingest/state_change post of probe_office
StateChangePost(o) ==
    [path |-> "/ingest/state_change",
     payload |-> [office |-> o.name, state |-> o.state,
                  sample |-> o.last_sample, at |-> o.last_change]]

\* the body of the /offices post of reconcile
UpsertPost(o) ==
    [path |-> "/offices",
     payload |-> [name |-> o.name, gateway_ip |-> o.gateway_ip, mx_ip |-> o.mx_ip,
                  tunnel_probe_ip |-> o.tunnel_probe_ip,
                  retries_down |-> o.retries_down, retries_up |-> o.retries_up]]

(***************************************************************************)
(* One cycle of probe_office for office n, from the results of the three   *)
(* pings to the next await (the state-change post, or the sleep).          *)
(***************************************************************************)
CycleStep(n, gw, mx, ipsec) ==
    LET new_state == instant_state(gw, mx, ipsec)
        d == Debounce(offices[n], new_state, now)
        o == [d.office EXCEPT !.last_sample = Sample(gw, mx, ipsec, now)]
    IN /\ offices' = [offices EXCEPT ![n] = o]
       /\ tasks' = [tasks EXCEPT ![n] =
                       IF d.changed
                       THEN [@ EXCEPT !.pc = "post", !.post = StateChangePost(o)]
                       ELSE [@ EXCEPT !.pc = "sleep"]]
       /\ hist' = [hist EXCEPT ![n] =
                       Append(@, [n |-> new_state, from |-> offices[n].state,
                                  changed |-> d.changed, at |-> now])]

\* a cycle whose three pings are not followed one by one: the task wakes, the
\* pings give gw, mx and ipsec, and the cycle runs to its next await
ProbeCycle(n, gw, mx, ipsec) ==
    /\ n \in DOMAIN offices
    /\ tasks[n].pc = "sleep"
    /\ budget.cycles > 0
    /\ CycleStep(n, gw, mx, ipsec)
    /\ budget' = [budget EXCEPT !.cycles = @ - 1]
    /\ UNCHANGED <<hashes, cancelled, next_tid, rc, now>>
    /\ UNCHANGED ext_vars
    /\ UNCHANGED store_vars

\* `await ingestor.post_json(...)` of probe_office returns (delivered or not)
ProbePostReturn(n) ==
    /\ n \in DOMAIN offices
    /\ tasks[n].pc = "post"
    /\ tasks' = [tasks EXCEPT ![n] = [@ EXCEPT !.pc = "sleep", !.post = None]]
    /\ UNCHANGED <<offices, hashes, cancelled, next_tid, rc, hist, now, budget>>
    /\ UNCHANGED ext_vars
    /\ UNCHANGED store_vars

(***************************************************************************)
(* monitor.py: Ingestor.post_json and its callers probe_office and ticker. *)
(***************************************************************************)
\* what becomes of a POST: answered 2xx, answered 4xx or 5xx (an error under
\* raise_for_status), connection refused, timed out
Transports == {"ok", "status", "refused", "timeout"}

\* a plausible slip: the error of a failed POST is raised to the caller
post_json_raising(session, path, payload, outcome) ==
    [session |-> session, path |-> path, payload |-> payload, outcome |-> outcome,
     attempts |-> 1, logged |-> <<>>,
     ends |-> IF outcome = "ok" THEN "returns" ELSE "raises"]

\* Ingestor.post_json(path, payload) when a POST has outcome `outcome`: with
\* the session open and in the one-off fallback alike, one POST is made inside
\* contextlib.suppress(Exception), nothing is logged, and the call returns
post_json(session, path, payload, outcome) ==
    [session |-> session, path |-> path, payload |-> payload, outcome |-> outcome,
     attempts |-> 1, logged |-> <<>>, ends |-> "returns"]

\* `await ingestor.post_json("/ingest/state_change", ...)` of probe_office
\* ends: the task goes on to its sleep, or ends with the exception raised
ProbePostDone(n, outcome) ==
    /\ n \in DOMAIN offices
    /\ tasks[n].pc = "post"
    /\ LET c == post_json(ingestor.session, tasks[n].post.path,
                          tasks[n].post.payload, outcome)
       IN /\ pj' = Merge([caller |-> "probe"], c)
          /\ tasks' = [tasks EXCEPT ![n] =
                          [@ EXCEPT !.pc = IF c.ends = "raises" THEN "dead" ELSE "sleep",
                                    !.post = None]]
    /\ UNCHANGED <<offices, hashes, cancelled, next_tid, rc, hist, now, budget>>
    /\ UNCHANGED <<limiter, pings, oneshot, ticker, ingestor, watcher, file>>
    /\ UNCHANGED store_vars
    /\ UNCHANGED orphans

\* the summary of ticker: one entry per office of the manager
Summary(offs) ==
    LET order == SelectSeq(<<"HQ", "Remote">>, LAMBDA n : n \in DOMAIN offs)
    IN [i \in 1..Len(order) |->
           Merge([office |-> order[i], state |-> offs[order[i]].state],
                 offs[order[i]].last_sample)]

\* ticker builds its summary and awaits the post of it
TickerPost ==
    /\ ticker.pc = "wait"
    /\ ticker' = [pc |-> "post",
                  post |-> [path |-> "/ingest/tick", payload |-> Summary(offices)]]
    /\ UNCHANGED <<offices, tasks, hashes, cancelled, next_tid, rc, hist, now, budget>>
    /\ UNCHANGED <<limiter, pings, oneshot, ingestor, pj, watcher, file>>
    /\ UNCHANGED store_vars
    /\ UNCHANGED orphans

\* `await ingestor.post_json("/ingest/tick", summary)` ends: ticker goes on to
\* its wait, or ends with the exception raised
TickerPostDone(outcome) ==
    /\ ticker.pc = "post"
    /\ LET c == post_json(ingestor.session, ticker.post.path, ticker.post.payload,
                          outcome)
       IN /\ pj' = Merge([caller |-> "ticker"], c)
          /\ ticker' = [pc |-> IF c.ends = "raises" THEN "dead" ELSE "wait",
                        post |-> None]
    /\ UNCHANGED <<offices, tasks, hashes, cancelled, next_tid, rc, hist, now, budget>>
    /\ UNCHANGED <<limiter, pings, oneshot, ingestor, watcher, file>>
    /\ UNCHANGED store_vars
    /\ UNCHANGED orphans

(***************************************************************************)
(* monitor.py: limited_ping under the shared asyncio.Semaphore.  A probe   *)
(* task that awaits its gather has three limited_ping tasks; each is at    *)
(* "start" (created), "wait" (queued in acquire), "ping" (inside `async    *)
(* with limiter`, awaiting ping_host), "cancelling" (inside it with a      *)
(* cancellation pending), or ended: "ok", "fail", "cancelled".             *)
(***************************************************************************)
Kinds == {"gateway", "mx", "ipsec"}

\* Semaphore.locked()
Locked(l) == l.value = 0 \/ l.waiters # <<>>

\* a plausible slip: ping_host is awaited without entering the limiter
AcquireUngated(l, p) == [lim |-> l, granted |-> TRUE]

\* `async with limiter`, the acquire of ping p: the slot is taken at once when
\* the semaphore is not locked, otherwise p queues behind the waiters
Acquire(l, p) ==
    IF Locked(l)
    THEN [lim |-> [l EXCEPT !.waiters = Append(@, p)], granted |-> FALSE]
    ELSE [lim |-> [l EXCEPT !.value = @ - 1], granted |-> TRUE]

\* a plausible slip: release counts the slot and wakes no waiter
ReleaseWakesNobody(l) == [lim |-> [l EXCEPT !.value = @ + 1], woken |-> <<>>]

\* Semaphore.release(): the slot goes to the first waiter when there is one
Release(l) ==
    IF l.waiters = <<>>
    THEN [lim |-> [l EXCEPT !.value = @ + 1], woken |-> <<>>]
    ELSE [lim |-> [l EXCEPT !.waiters = Tail(@)], woken |-> <<Head(l.waiters)>>]

\* the pings after a release woke the pings of `woken`
Wake(ps, woken) ==
    IF woken = <<>> THEN ps ELSE [ps EXCEPT ![woken[1][1]][woken[1][2]] = "ping"]

\* the entry of a task none of whose pings is still to end is forgotten
Settle(ps, tids) ==
    Drop(ps, {t \in tids \cap DOMAIN ps : \A k \in Kinds : ps[t][k] # "cancelling"})

\* Task.cancel() on the tasks tids as it reaches their limited_ping tasks: one
\* not yet run or queued never gets a slot, one holding a slot keeps it until
\* it is resumed
CancelPings(ps, tids) ==
    [t \in DOMAIN ps |->
        IF t \in tids
        THEN [k \in Kinds |->
                 IF ps[t][k] \in {"start", "wait"} THEN "cancelled"
                 ELSE IF ps[t][k] = "ping" THEN "cancelling"
                 ELSE ps[t][k]]
        ELSE ps[t]]

\* the waiters whose future was not cancelled
CancelWaiters(l, tids) ==
    [l EXCEPT !.waiters = SelectSeq(@, LAMBDA p : p[1] \notin tids)]

\* probe_office wakes from its sleep and creates the three limited_ping tasks
ProbeStart(n) ==
    /\ n \in DOMAIN offices
    /\ tasks[n].pc = "sleep"
    /\ budget.cycles > 0
    /\ tasks' = [tasks EXCEPT ![n] = [@ EXCEPT !.pc = "gather"]]
    /\ pings' = Put(pings, tasks[n].id, [k \in Kinds |-> "start"])
    /\ budget' = [budget EXCEPT !.cycles = @ - 1]
    /\ UNCHANGED <<offices, hashes, cancelled, next_tid, rc, hist, now>>
    /\ UNCHANGED <<limiter, oneshot, ticker, ingestor, pj, watcher, file>>
    /\ UNCHANGED store_vars
    /\ UNCHANGED orphans

\* the first step of a limited_ping task
PingAcquire(tid, k) ==
    /\ tid \in DOMAIN pings
    /\ pings[tid][k] = "start"
    /\ LET a == Acquire(limiter, <<tid, k>>)
       IN /\ limiter' = a.lim
          /\ pings' = [pings EXCEPT ![tid][k] = IF a.granted THEN "ping" ELSE "wait"]
    /\ UNCHANGED <<offices, tasks, hashes, cancelled, next_tid, rc, hist, now, budget>>
    /\ UNCHANGED <<oneshot, ticker, ingestor, pj, watcher, file>>
    /\ UNCHANGED store_vars
    /\ UNCHANGED orphans

\* ping_host returns and limited_ping leaves `async with limiter`
PingDone(tid, k, ok) ==
    /\ tid \in DOMAIN pings
    /\ pings[tid][k] = "ping"
    /\ LET r == Release(limiter)
       IN /\ limiter' = r.lim
          /\ pings' = Wake([pings EXCEPT ![tid][k] = IF ok THEN "ok" ELSE "fail"],
                           r.woken)
    /\ UNCHANGED <<offices, tasks, hashes, cancelled, next_tid, rc, hist, now, budget>>
    /\ UNCHANGED <<oneshot, ticker, ingestor, pj, watcher, file>>
    /\ UNCHANGED store_vars
    /\ UNCHANGED orphans

\* CancelledError is raised inside `async with limiter`, which releases
PingCancelled(tid, k) ==
    /\ tid \in DOMAIN pings
    /\ pings[tid][k] = "cancelling"
    /\ LET r == Release(limiter)
       IN /\ limiter' = r.lim
          /\ pings' = Settle(Wake([pings EXCEPT ![tid][k] = "cancelled"], r.woken),
                             {tid})
    /\ UNCHANGED <<offices, tasks, hashes, cancelled, next_tid, rc, hist, now, budget>>
    /\ UNCHANGED <<oneshot, ticker, ingestor, pj, watcher, file>>
    /\ UNCHANGED store_vars
    /\ UNCHANGED orphans

\* the gather of probe_office returns and the cycle runs to its next await
ProbeGathered(n) ==
    /\ n \in DOMAIN offices
    /\ tasks[n].pc = "gather"
    /\ \A k \in Kinds : pings[tasks[n].id][k] \in {"ok", "fail"}
    /\ LET res == pings[tasks[n].id]
       IN CycleStep(n, res["gateway"] = "ok", res["mx"] = "ok", res["ipsec"] = "ok")
    /\ pings' = Drop(pings, {tasks[n].id})
    /\ UNCHANGED <<hashes, cancelled, next_tid, rc, now, budget>>
    /\ UNCHANGED <<limiter, oneshot, ticker, ingestor, pj, watcher, file>>
    /\ UNCHANGED store_vars
    /\ UNCHANGED orphans

\* the gather of oneshot returns: every probe_single has its three results
OneshotReturn ==
    /\ oneshot.pc = "gather"
    /\ \A n \in DOMAIN oneshot.tids :
          \A k \in Kinds : pings[oneshot.tids[n]][k] \in {"ok", "fail"}
    /\ oneshot' = [pc |-> "done",
                   tids |-> EmptyDict,
                   status |-> [n \in DOMAIN oneshot.tids |->
                                 LET res == pings[oneshot.tids[n]]
                                 IN instant_state(res["gateway"] = "ok",
                                                  res["mx"] = "ok",
                                                  res["ipsec"] = "ok")]]
    /\ pings' = EmptyDict
    /\ UNCHANGED <<offices, tasks, hashes, cancelled, next_tid, rc, hist, now, budget>>
    /\ UNCHANGED <<limiter, ticker, ingestor, pj, watcher, file>>
    /\ UNCHANGED store_vars
    /\ UNCHANGED orphans

(***************************************************************************)
(* monitor.py: hash_office_record and OfficeManager.reconcile.             *)
(***************************************************************************)
\* the bytes fed to SHA-256, which is taken to be injective
hash_office_record(o) ==
    Get(o, "name", "") \o "|" \o
    Get(o, "gateway_ip", "") \o "|" \o
    Get(o, "mx_ip", "") \o "|" \o
    Get(o, "tunnel_probe_ip", "") \o "|" \o
    Str(Get(o, "retries_down", _office_default("retries_down"))) \o "|" \o
    Str(Get(o, "retries_up", _office_default("retries_up"))) \o "|"

\* a probe task as created by asyncio.create_task(probe_office(...))
NewTask(id) == [id |-> id, pc |-> "sleep", post |-> None]

\* a plausible slip: the update rebuilds the runtime record from the configuration
UpdateOfficeRebuild(o, rec) == NewOffice(rec, o.last_change)

\* the "updated IPs" branch of reconcile, up to the post
UpdateOffice(o, rec) ==
    [o EXCEPT !.gateway_ip = rec.gateway_ip,
              !.mx_ip = rec.mx_ip,
              !.tunnel_probe_ip = rec.tunnel_probe_ip,
              !.retries_down = Get(rec, "retries_down", _office_default("retries_down")),
              !.retries_up = Get(rec, "retries_up", _office_default("retries_up"))]

\* a plausible slip: the removed office's task is popped but not cancelled
CancelRemovedForgets(canc, tks, removed) == canc

\* the cancel() calls of the removal loop of reconcile
CancelRemoved(canc, tks, removed) ==
    canc \cup {tks[n].id : n \in removed \cap DOMAIN tks}

Names(cfg) == {cfg.offices[i].name : i \in 1..Len(cfg.offices)}

\* a plausible slip: the recorded hash is not consulted and every desired
\* office is taken through its branch
SkipNothing(pending, offs, hs) == pending

\* the entries of the additions/updates loop that issue no post are passed over
RECURSIVE SkipUnchanged(_, _, _)
SkipUnchanged(pending, offs, hs) ==
    IF pending = <<>> THEN <<>>
    ELSE LET rec == Head(pending)
         IN IF rec.name \in DOMAIN offs /\ Get(hs, rec.name, "") = hash_office_record(rec)
            THEN SkipUnchanged(Tail(pending), offs, hs)
            ELSE pending

\* the additions/updates loop of reconcile, run from `pending` up to its next
\* await (the /offices post) or to the end of reconcile
ReconcileLoop(offs, tks, hs, hst, pending, cfg) ==
    LET rest == SkipUnchanged(pending, offs, hs)
    IN IF rest = <<>>
       THEN /\ offices' = offs
            /\ tasks' = tks
            /\ hashes' = hs
            /\ hist' = hst
            /\ next_tid' = next_tid
            /\ rc' = [pc |-> "idle", op |-> "none", pending |-> <<>>, post |-> None,
                      cfg |-> cfg]
       ELSE LET rec == Head(rest)
                n == rec.name
                h == hash_office_record(rec)
            IN IF n \notin DOMAIN offs
               THEN LET o == NewOffice(rec, now)
                    IN /\ offices' = Put(offs, n, o)
                       /\ hashes' = Put(hs, n, h)
                       /\ tasks' = Put(tks, n, NewTask(next_tid))
                       /\ hist' = Put(hst, n, <<>>)
                       /\ next_tid' = next_tid + 1
                       /\ rc' = [pc |-> "await", op |-> "add", pending |-> Tail(rest),
                                 post |-> UpsertPost(o), cfg |-> cfg]
               ELSE LET o == UpdateOffice(offs[n], rec)
                    IN /\ offices' = Put(offs, n, o)
                       /\ hashes' = Put(hs, n, h)
                       /\ tasks' = tks
                       /\ hist' = hst
                       /\ next_tid' = next_tid
                       /\ rc' = [pc |-> "await", op |-> "update", pending |-> Tail(rest),
                                 post |-> UpsertPost(o), cfg |-> cfg]

\* reconcile(cfg) is called: the removals, then the loop up to its first await
ReconcileCall(cfg) ==
    /\ rc.pc = "idle"
    /\ budget.reloads > 0
    /\ LET removed == (DOMAIN offices) \ Names(cfg)
           gone == {tasks[n].id : n \in removed \cap DOMAIN tasks}
       IN /\ cancelled' = CancelRemoved(cancelled, tasks, removed)
          /\ pings' = Settle(CancelPings(pings, gone), gone)
          /\ limiter' = CancelWaiters(limiter, gone)
          /\ ReconcileLoop(Drop(offices, removed), Drop(tasks, removed),
                           Drop(hashes, removed), Drop(hist, removed),
                           cfg.offices, cfg)
    /\ budget' = [budget EXCEPT !.reloads = @ - 1]
    /\ UNCHANGED now
    /\ UNCHANGED store_vars

\* reconcile(cfg) called by a caller that is not followed
Reconcile(cfg) ==
    /\ ReconcileCall(cfg)
    /\ UNCHANGED <<oneshot, ticker, ingestor, pj, watcher, file>>
    /\ UNCHANGED orphans

\* `await self.ingestor.post_json("/offices", ...)` returns (delivered or not)
\* and reconcile runs on to its next await
ReconcileResume ==
    /\ rc.pc = "await"
    /\ ReconcileLoop(offices, tasks, hashes, hist, rc.pending, rc.cfg)
    /\ UNCHANGED <<cancelled, now, budget, limiter, pings>>
    /\ UNCHANGED store_vars

ReconcilePostReturn ==
    /\ ReconcileResume
    /\ UNCHANGED <<oneshot, ticker, ingestor, pj, watcher, file>>
    /\ UNCHANGED orphans

(***************************************************************************)
(* The probe task of a removed office.  reconcile pops it from             *)
(* OfficeManager.tasks and calls cancel() on it; the event loop holds it,  *)
(* with the Office object it was created with, until it is resumed.        *)
(***************************************************************************)
\* the tasks reconcile cancels when it removes the offices `removed`
Orphaned(offs, tks, removed) ==
    [tid \in {tks[n].id : n \in removed \cap DOMAIN tks} |->
        LET n == CHOOSE x \in removed \cap DOMAIN tks : tks[x].id = tid
        IN [name |-> n, office |-> offs[n], pc |-> tks[n].pc, post |-> tks[n].post]]

\* a plausible slip: the results of the gather are used after the cancel
ResumedUsesResults(t) ==
    IF t.pc = "gather"
    THEN LET d == Debounce(t.office, "down", 0)
         IN [t EXCEPT !.office = d.office,
                      !.pc = IF d.changed THEN "post" ELSE "sleep",
                      !.post = IF d.changed THEN StateChangePost(d.office) ELSE None]
    ELSE [t EXCEPT !.pc = "dead", !.post = None]

\* the cancelled task is resumed: CancelledError is raised at the await it
\* was suspended at (the sleep, the gather or the post), nothing in
\* probe_office catches it, and the task ends
Resumed(t) == [t EXCEPT !.pc = "dead", !.post = None]

\* reconcile(cfg) with the tasks it cancels followed
ReconcileRemoving(cfg) ==
    /\ ReconcileCall(cfg)
    /\ orphans' = Merge(orphans,
                        Orphaned(offices, tasks, (DOMAIN offices) \ Names(cfg)))
    /\ UNCHANGED <<oneshot, ticker, ingestor, pj, watcher, file>>

\* the event loop resumes a cancelled task; one that awaited its gather is
\* resumed when its three limited_ping tasks have ended
OrphanResume(tid) ==
    /\ tid \in DOMAIN orphans
    /\ orphans[tid].pc # "dead"
    /\ tid \notin DOMAIN pings
    /\ orphans' = [orphans EXCEPT ![tid] = Resumed(@)]
    /\ UNCHANGED <<offices, tasks, hashes, cancelled, next_tid, rc, hist, now, budget>>
    /\ UNCHANGED <<limiter, pings, oneshot, ticker, ingestor, pj, watcher, file>>
    /\ UNCHANGED store_vars

(***************************************************************************)
(* Configuration snapshots.                                                *)
(***************************************************************************)
OfficeNames == {"HQ", "Remote"}

BaseRec(n) == [name |-> n, gateway_ip |-> "10.0.0.1", mx_ip |-> "10.0.0.2",
               tunnel_probe_ip |-> "10.0.0.3"]

WithRetries(r, rd, ru) ==
    [k \in (DOMAIN r) \cup {"retries_down", "retries_up"} |->
        IF k = "retries_down" THEN rd ELSE IF k = "retries_up" THEN ru ELSE r[k]]

\* the records a snapshot may hold for office n: thresholds omitted, the
\* defaults spelled out, another gateway, other thresholds
Recs(n) ==
    {BaseRec(n),
     WithRetries(BaseRec(n), 2, 1),
     [BaseRec(n) EXCEPT !.gateway_ip = "10.0.0.9"],
     WithRetries(BaseRec(n), 1, 2)}

Cfgs ==
    {[offices |-> l] :
        l \in {<<>>} \cup {<<a>> : a \in Recs("HQ")} \cup {<<b>> : b \in Recs("Remote")}
              \cup {<<a, b>> : a \in Recs("HQ"), b \in {BaseRec("Remote")}}}

\* the results of the three pings of a cycle: every triple in SpecDebounce,
\* one triple per classification in SpecMonitor
Outcomes == BOOLEAN \X BOOLEAN \X BOOLEAN

MonOutcomes == {<<FALSE, FALSE, FALSE>>, <<TRUE, FALSE, FALSE>>, <<FALSE, TRUE, TRUE>>}

(***************************************************************************)
(* monitor.py: watch_offices_yaml, and the end of run() when it raises.    *)
(* The file is what offices.yaml holds: text that YAML cannot parse        *)
(* ("garbled"), an empty document ("empty", loaded as None) or a mapping   *)
(* with its list of office records.                                        *)
(***************************************************************************)
Mapping(cfg) == [form |-> "mapping", offices |-> cfg.offices]

\* the snapshots written while the monitor runs
WatchSnapshots ==
    {Mapping([offices |-> l]) :
        l \in {<<>>, <<BaseRec("HQ")>>, <<BaseRec("HQ"), BaseRec("Remote")>>,
               <<[BaseRec("HQ") EXCEPT !.gateway_ip = "10.0.0.9"]>>}}
    \cup {[form |-> "garbled", offices |-> <<>>],
          [form |-> "empty", offices |-> <<>>],
          Mapping([offices |-> <<BaseRec("HQ"),
                                 [gateway_ip |-> "10.0.0.1", mx_ip |-> "10.0.0.2",
                                  tunnel_probe_ip |-> "10.0.0.3"]>>])}

\* yaml.safe_load of the file
load_yaml_config(f) ==
    IF f.content.form = "garbled"
    THEN [raises |-> "YAMLError", doc |-> f.content]
    ELSE [raises |-> "none", doc |-> f.content]

\* the first statement of reconcile, `desired = {o["name"]: o for o in
\* offices_cfg.get("offices", [])}`, which runs before anything is changed
DesiredRaises(doc) ==
    IF doc.form = "empty" THEN "AttributeError"
    ELSE IF \E i \in 1..Len(doc.offices) : "name" \notin DOMAIN doc.offices[i]
         THEN "KeyError"
         ELSE "none"

\* offices.yaml is rewritten
FileWrite(c) ==
    /\ file.mtime < MaxMtime
    /\ file' = [exists |-> TRUE, mtime |-> file.mtime + 1, content |-> c]
    /\ UNCHANGED <<offices, tasks, hashes, cancelled, next_tid, rc, hist, now, budget>>
    /\ UNCHANGED <<limiter, pings, oneshot, ticker, ingestor, pj, watcher>>
    /\ UNCHANGED store_vars
    /\ UNCHANGED orphans

\* offices.yaml is removed
FileRemove ==
    /\ file.exists
    /\ file' = [file EXCEPT !.exists = FALSE]
    /\ UNCHANGED <<offices, tasks, hashes, cancelled, next_tid, rc, hist, now, budget>>
    /\ UNCHANGED <<limiter, pings, oneshot, ticker, ingestor, pj, watcher>>
    /\ UNCHANGED store_vars
    /\ UNCHANGED orphans

\* one pass of the loop of watch_offices_yaml, from the end of its sleep to
\* its next await.  Only FileNotFoundError is suppressed: any other exception
\* of the load or of reconcile leaves the coroutine.
WatchPoll ==
    /\ watcher.pc = "sleep"
    /\ IF ~file.exists \/ (watcher.seen /\ file.mtime <= watcher.last_mtime)
       THEN /\ UNCHANGED <<offices, tasks, hashes, cancelled, next_tid, rc, hist, now,
                           budget, limiter, pings, watcher>>
            /\ UNCHANGED store_vars
       ELSE LET l == load_yaml_config(file)
                err == IF l.raises # "none" THEN l.raises ELSE DesiredRaises(l.doc)
            IN IF err # "none"
               THEN /\ watcher' = [watcher EXCEPT !.pc = "raised", !.error = err,
                                                  !.mtime = file.mtime]
                    /\ UNCHANGED <<offices, tasks, hashes, cancelled, next_tid, rc,
                                   hist, now, budget, limiter, pings>>
                    /\ UNCHANGED store_vars
               ELSE /\ ReconcileCall([offices |-> l.doc.offices])
                    /\ watcher' = IF rc'.pc = "idle"
                                  THEN [watcher EXCEPT !.seen = TRUE,
                                                       !.last_mtime = file.mtime,
                                                       !.mtime = file.mtime]
                                  ELSE [watcher EXCEPT !.pc = "reconcile",
                                                       !.mtime = file.mtime]
    /\ UNCHANGED <<oneshot, ticker, ingestor, pj, file>>
    /\ UNCHANGED orphans

\* a post of the reconcile called by the watcher returns; when reconcile
\* returns, `last_mtime = mtime` and the watcher sleeps
WatchPostReturn ==
    /\ watcher.pc = "reconcile"
    /\ ReconcileResume
    /\ watcher' = IF rc'.pc = "idle"
                  THEN [watcher EXCEPT !.pc = "sleep", !.seen = TRUE,
                                       !.last_mtime = watcher.mtime]
                  ELSE watcher
    /\ UNCHANGED <<oneshot, ticker, ingestor, pj, file>>
    /\ UNCHANGED orphans

\* the exception of the watcher task leaves the gather of run(), which
\* catches CancelledError only; it leaves `async with Ingestor` and run(),
\* and asyncio.run cancels every task that is left
RunExit ==
    /\ watcher.pc = "raised"
    /\ watcher' = [watcher EXCEPT !.pc = "dead"]
    /\ cancelled' = cancelled \cup {tasks[n].id : n \in DOMAIN tasks}
    /\ tasks' = [n \in DOMAIN tasks |-> [tasks[n] EXCEPT !.pc = "dead", !.post = None]]
    /\ ingestor' = [ingestor EXCEPT !.session = "closed"]
    /\ UNCHANGED <<offices, hashes, next_tid, rc, hist, now, budget>>
    /\ UNCHANGED <<limiter, pings, oneshot, ticker, pj, file>>
    /\ UNCHANGED store_vars
    /\ UNCHANGED orphans

(***************************************************************************)
(* api/app.py: the store.  A table is the sequence of its rows in rowid    *)
(* order; a handler maps the database and its request to the database      *)
(* after the call and the response.                                        *)
(***************************************************************************)
Rows(t) == {t[i] : i \in 1..Len(t)}

\* the rowid an INTEGER PRIMARY KEY column gets on insert
NextId(t) == IF t = <<>> THEN 1
             ELSE (CHOOSE m \in {r.id : r \in Rows(t)} : \A r \in Rows(t) : r.id <= m) + 1

\* SELECT id FROM offices WHERE name=?  (the ids found: none or one)
SelectOfficeId(t, name) == {r.id : r \in {x \in Rows(t) : x.name = name}}

\* OfficeIn(**payload): the defaults of the request model filled in
OfficeIn(p) ==
    [name |-> p.name, gateway_ip |-> p.gateway_ip, mx_ip |-> p.mx_ip,
     tunnel_probe_ip |-> p.tunnel_probe_ip,
     retries_down |-> Get(p, "retries_down", 2),
     retries_up |-> Get(p, "retries_up", 1)]

OfficeRow(id, o) ==
    [id |-> id, name |-> o.name, gateway_ip |-> o.gateway_ip, mx_ip |-> o.mx_ip,
     tunnel_probe_ip |-> o.tunnel_probe_ip,
     retries_down |-> o.retries_down, retries_up |-> o.retries_up]

\* a plausible slip: INSERT OR REPLACE, which deletes the conflicting row and
\* inserts the new one under a fresh rowid
upsert_office_replace(db, p) ==
    LET o == OfficeIn(p)
        kept == SelectSeq(db.offices, LAMBDA r : r.name # o.name)
        id == NextId(db.offices)
    IN [db |-> [db EXCEPT !.offices = Append(kept, OfficeRow(id, o))],
        resp |-> [op |-> "upsert", req |-> p, status |-> 200, ok |-> TRUE,
                  office_id |-> id]]

\* POST /offices: INSERT ... ON CONFLICT(name) DO UPDATE SET ..., then the id read back
upsert_office(db, p) ==
    LET o == OfficeIn(p)
        t == db.offices
        t2 == IF SelectOfficeId(t, o.name) = {}
              THEN Append(t, OfficeRow(NextId(t), o))
              ELSE [i \in 1..Len(t) |->
                      IF t[i].name = o.name THEN OfficeRow(t[i].id, o) ELSE t[i]]
        id == CHOOSE x \in SelectOfficeId(t2, o.name) : TRUE
    IN [db |-> [db EXCEPT !.offices = t2],
        resp |-> [op |-> "upsert", req |-> p, status |-> 200, ok |-> TRUE,
                  office_id |-> id]]

\* HTTPException(400, f"Unknown office '{name}'")
UnknownOffice(op, req, name) ==
    [op |-> op, req |-> req, status |-> 400,
     detail |-> "Unknown office '" \o name \o "'"]

\* int(bool(sample.get(k)))
Bit(sample, k) == IF k \in DOMAIN sample /\ sample[k] = TRUE THEN 1 ELSE 0

\* a plausible slip: the prior row is looked up in ascending order of at_ts
PriorToStateOldest(t, oid, at) ==
    LET prior == {r \in Rows(t) : r.office_id = oid /\ r.at_ts < at}
    IN IF prior = {} THEN "unknown"
       ELSE (CHOOSE r \in prior : \A q \in prior : q.at_ts >= r.at_ts).to_state

\* COALESCE((SELECT to_state FROM state_changes WHERE office_id=? AND at_ts < ?
\*           ORDER BY at_ts DESC LIMIT 1), 'unknown')
PriorToState(t, oid, at) ==
    LET prior == {r \in Rows(t) : r.office_id = oid /\ r.at_ts < at}
    IN IF prior = {} THEN "unknown"
       ELSE (CHOOSE r \in prior : \A q \in prior : q.at_ts <= r.at_ts).to_state

\* a plausible slip: plain INSERT OR REPLACE on the (office_id, at_ts) conflict
InsertStateChangeReplace(t, oid, ev) ==
    LET kept == SelectSeq(t, LAMBDA r : ~(r.office_id = oid /\ r.at_ts = ev.at))
    IN [rows |-> Append(kept,
                    [id |-> NextId(t), office_id |-> oid, at_ts |-> ev.at,
                     from_state |-> PriorToState(t, oid, ev.at),
                     to_state |-> ev.state,
                     sample_gateway |-> Bit(ev.sample, "gateway"),
                     sample_mx |-> Bit(ev.sample, "mx"),
                     sample_ipsec |-> Bit(ev.sample, "ipsec")]),
        rowcount |-> 1]

\* INSERT OR IGNORE INTO state_changes ... under UNIQUE (office_id, at_ts):
\* the table after the statement and its rowcount
InsertStateChange(t, oid, ev) ==
    IF \E r \in Rows(t) : r.office_id = oid /\ r.at_ts = ev.at
    THEN [rows |-> t, rowcount |-> 0]
    ELSE [rows |-> Append(t,
                    [id |-> NextId(t), office_id |-> oid, at_ts |-> ev.at,
                     from_state |-> PriorToState(t, oid, ev.at),
                     to_state |-> ev.state,
                     sample_gateway |-> Bit(ev.sample, "gateway"),
                     sample_mx |-> Bit(ev.sample, "mx"),
                     sample_ipsec |-> Bit(ev.sample, "ipsec")]),
          rowcount |-> 1]

\* a plausible slip: the office is created when it is not found (ensure_office)
ingest_state_change_ensure(db, ev) ==
    LET found == SelectOfficeId(db.offices, ev.office)
        offs == IF found = {}
                THEN Append(db.offices,
                            OfficeRow(NextId(db.offices),
                                      [name |-> ev.office, gateway_ip |-> "",
                                       mx_ip |-> "", tunnel_probe_ip |-> "",
                                       retries_down |-> 2, retries_up |-> 1]))
                ELSE db.offices
        oid == CHOOSE x \in SelectOfficeId(offs, ev.office) : TRUE
        ins == InsertStateChange(db.state_changes, oid, ev)
    IN [db |-> [db EXCEPT !.offices = offs, !.state_changes = ins.rows],
        resp |-> [op |-> "state_change", req |-> ev, status |-> 200, ok |-> TRUE,
                  inserted |-> ins.rowcount]]

\* POST /ingest/state_change
ingest_state_change(db, ev) ==
    LET found == SelectOfficeId(db.offices, ev.office)
    IN IF found = {}
       THEN [db |-> db, resp |-> UnknownOffice("state_change", ev, ev.office)]
       ELSE LET oid == CHOOSE x \in found : TRUE
                ins == InsertStateChange(db.state_changes, oid, ev)
            IN [db |-> [db EXCEPT !.state_changes = ins.rows],
                resp |-> [op |-> "state_change", req |-> ev, status |-> 200,
                          ok |-> TRUE, inserted |-> ins.rowcount]]

\* the request model TickSample: gateway, mx, ipsec and ts are required
ValidTickSample(e) ==
    /\ {"office", "gateway", "mx", "ipsec", "ts"} \subseteq DOMAIN e
    /\ "state" \in DOMAIN e => e.state \in {"unknown", "up", "degraded", "down"}

\* the loop of ingest_tick over the entries not yet handled: the samples table
\* as the open transaction sees it, and the office name the loop raised on
RECURSIVE TickLoop(_, _, _)
TickLoop(t, offs, batch) ==
    IF batch = <<>> THEN [rows |-> t, raised |-> {}]
    ELSE LET s == Head(batch)
             found == SelectOfficeId(offs, s.office)
         IN IF found = {}
            THEN [rows |-> t, raised |-> {s.office}]
            ELSE TickLoop(Append(t, [id |-> NextId(t),
                                     office_id |-> CHOOSE x \in found : TRUE,
                                     ts |-> s.ts,
                                     gateway |-> IF s.gateway THEN 1 ELSE 0,
                                     mx |-> IF s.mx THEN 1 ELSE 0,
                                     ipsec |-> IF s.ipsec THEN 1 ELSE 0]),
                          offs, Tail(batch))

\* a plausible slip: every insert is committed as it is made
TickTransactionAutocommit(before, run) == run.rows

\* a plausible slip: the samples table keeps the rows of the last batch only
TickTransactionLatestOnly(before, run) ==
    IF run.raised = {} THEN SubSeq(run.rows, Len(before) + 1, Len(run.rows))
    ELSE before

\* the samples table after the request: conn.commit() is reached only when
\* the loop did not raise, and conn.close() drops an open transaction
TickTransaction(before, run) == IF run.raised = {} THEN run.rows ELSE before

\* POST /ingest/tick
ingest_tick(db, batch) ==
    IF \E i \in 1..Len(batch) : ~ValidTickSample(batch[i])
    THEN [db |-> db, resp |-> [op |-> "tick", req |-> batch, status |-> 422]]
    ELSE LET run == TickLoop(db.samples, db.offices, batch)
             t2 == TickTransaction(db.samples, run)
         IN [db |-> [db EXCEPT !.samples = t2],
             resp |-> IF run.raised = {}
                      THEN [op |-> "tick", req |-> batch, status |-> 200,
                            ok |-> TRUE, count |-> Len(batch)]
                      ELSE UnknownOffice("tick", batch,
                                         CHOOSE x \in run.raised : TRUE)]

Db == [offices |-> db_offices, state_changes |-> state_changes, samples |-> samples]

\* the store after a call that returned r
Returned(r) ==
    /\ db_offices' = r.db.offices
    /\ state_changes' = r.db.state_changes
    /\ samples' = r.db.samples
    /\ resp' = r.resp
    /\ budget' = [budget EXCEPT !.calls = @ - 1]
    /\ UNCHANGED mon_vars

UpsertOffice(p) == budget.calls > 0 /\ Returned(upsert_office(Db, p))

IngestStateChange(ev) == budget.calls > 0 /\ Returned(ingest_state_change(Db, ev))

IngestTick(batch) == budget.calls > 0 /\ Returned(ingest_tick(Db, batch))

(***************************************************************************)
(* The monitor posting to the store, and the wall clock.                   *)
(***************************************************************************)
\* the state-change post of probe_office is answered by the API and
\* post_json returns
ProbePostDelivered(n) ==
    /\ n \in DOMAIN offices
    /\ tasks[n].pc = "post"
    /\ LET r == ingest_state_change(Db, tasks[n].post.payload)
       IN /\ db_offices' = r.db.offices
          /\ state_changes' = r.db.state_changes
          /\ samples' = r.db.samples
          /\ resp' = r.resp
    /\ tasks' = [tasks EXCEPT ![n] = [@ EXCEPT !.pc = "sleep", !.post = None]]
    /\ UNCHANGED <<offices, hashes, cancelled, next_tid, rc, hist, now, budget>>
    /\ UNCHANGED ext_vars

\* the /offices post of reconcile is answered by the API, post_json returns
\* and reconcile runs on to its next await
ReconcilePostDelivered ==
    /\ rc.pc = "await"
    /\ LET r == upsert_office(Db, rc.post.payload)
       IN /\ db_offices' = r.db.offices
          /\ state_changes' = r.db.state_changes
          /\ samples' = r.db.samples
          /\ resp' = r.resp
    /\ ReconcileLoop(offices, tasks, hashes, hist, rc.pending, rc.cfg)
    /\ UNCHANGED <<cancelled, now, budget>>
    /\ UNCHANGED ext_vars

\* run() creates the ticker task once `await mgr.reconcile(base_cfg)` returned
TickerStart ==
    /\ ticker.pc = "off"
    /\ rc.pc = "idle"
    /\ ticker' = [pc |-> "wait", post |-> None]
    /\ UNCHANGED <<offices, tasks, hashes, cancelled, next_tid, rc, hist, now, budget>>
    /\ UNCHANGED <<limiter, pings, oneshot, ingestor, pj, watcher, file, orphans>>
    /\ UNCHANGED store_vars

\* the /ingest/tick post of ticker is answered by the API and post_json returns
TickerPostDelivered ==
    /\ ticker.pc = "post"
    /\ LET r == ingest_tick(Db, ticker.post.payload)
       IN /\ db_offices' = r.db.offices
          /\ state_changes' = r.db.state_changes
          /\ samples' = r.db.samples
          /\ resp' = r.resp
    /\ ticker' = [pc |-> "wait", post |-> None]
    /\ UNCHANGED <<offices, tasks, hashes, cancelled, next_tid, rc, hist, now, budget>>
    /\ UNCHANGED <<limiter, pings, oneshot, ingestor, pj, watcher, file, orphans>>

\* a second of wall-clock time passes
Tick ==
    /\ now < MaxNow
    /\ now' = now + 1
    /\ UNCHANGED <<offices, tasks, hashes, cancelled, next_tid, rc, hist, budget>>
    /\ UNCHANGED ext_vars
    /\ UNCHANGED store_vars

(***************************************************************************)
(* api/app.py: the SLA query.  A request is the dict of the query          *)
(* parameters the caller supplied; clock is int(time.time()) at the call.  *)
(* Ratios are kept in millionths, the unit round(x, 6) rounds to.          *)
(***************************************************************************)
DaySeconds == 86400

\* `t_end = t_end or now`, `t_start = t_start or (t_end - 86400)`: an omitted
\* parameter and a supplied 0 are both falsy
Window(q, clock) ==
    LET t_end == IF "t_end" \in DOMAIN q /\ q.t_end # 0 THEN q.t_end ELSE clock
        t_start == IF "t_start" \in DOMAIN q /\ q.t_start # 0 THEN q.t_start
                   ELSE t_end - DaySeconds
    IN [t_start |-> t_start, t_end |-> t_end]

\* a plausible slip: the span of a row ends at the row that arrived next
ScByArrival(t, oid, t_end) ==
    LET own == SelectSeq(t, LAMBDA r : r.office_id = oid /\ r.at_ts < t_end)
    IN {[at_ts |-> own[i].at_ts, state |-> own[i].to_state,
         next_ts |-> IF i = Len(own) THEN t_end ELSE own[i + 1].at_ts] :
        i \in 1..Len(own)}

\* CTE sc, the partition of office oid: next_ts is LEAD(at_ts, 1, :t_end)
Sc(t, oid, t_end) ==
    LET own == {r \in Rows(t) : r.office_id = oid /\ r.at_ts < t_end}
    IN {[at_ts |-> r.at_ts, state |-> r.to_state,
         next_ts |-> LET later == {x.at_ts : x \in {y \in own : y.at_ts > r.at_ts}}
                     IN IF later = {} THEN t_end
                        ELSE CHOOSE m \in later : \A z \in later : m <= z] :
        r \in own}

\* a plausible slip: the spans that end before the window are not left out
ScwUnfiltered(sc, t_start, t_end) ==
    {[at_ts |-> r.at_ts, state |-> r.state,
      seg_start |-> IF r.at_ts < t_start THEN t_start ELSE r.at_ts,
      seg_end |-> IF r.next_ts > t_end THEN t_end ELSE r.next_ts] : r \in sc}

\* CTE scw: the spans clipped to the window, WHERE next_ts > :t_start
Scw(sc, t_start, t_end) ==
    {[at_ts |-> r.at_ts, state |-> r.state,
      seg_start |-> IF r.at_ts < t_start THEN t_start ELSE r.at_ts,
      seg_end |-> IF r.next_ts > t_end THEN t_end ELSE r.next_ts] :
        r \in {x \in sc : x.next_ts > t_start}}

\* SUM(CASE WHEN state=st THEN seg_end-seg_start ELSE 0 END)
RECURSIVE SumSeconds(_, _)
SumSeconds(segs, st) ==
    IF segs = {} THEN 0
    ELSE LET s == CHOOSE x \in segs : TRUE
         IN (IF s.state = st THEN s.seg_end - s.seg_start ELSE 0)
            + SumSeconds(segs \ {s}, st)

\* CTE latest, the partition of office oid: the rows numbered 1 by
\* ROW_NUMBER() OVER (ORDER BY at_ts DESC) among those with at_ts <= :t_end
Latest(t, oid, t_end) ==
    LET own == {r \in Rows(t) : r.office_id = oid /\ r.at_ts <= t_end}
    IN {r \in own : \A x \in own : x.at_ts <= r.at_ts}

\* CTE latest_samples, the partition of office oid: the rows that may be
\* numbered 1 (rows of equal ts are peers, and any of them may be)
LatestSamples(t, oid, t_end) ==
    LET own == {r \in Rows(t) : r.office_id = oid /\ r.ts <= t_end}
    IN {r \in own : \A x \in own : x.ts <= r.ts}

\* the choices of the latest sample row per office id (None: no row)
SamplePicks(db, t_end) ==
    LET ids == {r.id : r \in Rows(db.offices)}
    IN {f \in [ids -> Rows(db.samples) \cup {None}] :
          \A i \in ids :
             LET c == LatestSamples(db.samples, i, t_end)
             IN IF c = {} THEN f[i] = None ELSE f[i] \in c}

\* round(num / den, 6) in millionths, ties to the even millionth
Round6(num, den) ==
    LET scaled == num * 1000000
        quo == scaled \div den
        rem == scaled % den
    IN IF 2 * rem < den THEN quo
       ELSE IF 2 * rem > den THEN quo + 1
       ELSE IF quo % 2 = 0 THEN quo ELSE quo + 1

\* the groups of CTE sla: scw JOIN offices, `AND o.name = :office` only when
\* the office parameter is truthy, GROUP BY o.name
SlaOffices(db, q, w) ==
    {o \in Rows(db.offices) :
        /\ Scw(Sc(db.state_changes, o.id, w.t_end), w.t_start, w.t_end) # {}
        /\ ("office" \in DOMAIN q /\ q.office # "") => o.name = q.office}

\* one row of the final SELECT (sla LEFT JOIN latest LEFT JOIN latest_samples)
\* with the two ratios the loop over the rows adds
SlaRow(db, o, w, pick) ==
    LET segs == Scw(Sc(db.state_changes, o.id, w.t_end), w.t_start, w.t_end)
        sec_up == SumSeconds(segs, "up")
        sec_deg == SumSeconds(segs, "degraded")
        sec_down == SumSeconds(segs, "down")
        sec_total == w.t_end - w.t_start
        total == IF sec_total > 1 THEN sec_total ELSE 1
        last == Latest(db.state_changes, o.id, w.t_end)
        sm == pick[o.id]
    IN [office |-> o.name,
        sec_up |-> sec_up, sec_deg |-> sec_deg, sec_down |-> sec_down,
        sec_total |-> sec_total,
        current_state |-> IF last = {} THEN None ELSE (CHOOSE r \in last : TRUE).to_state,
        current_at |-> IF last = {} THEN None ELSE (CHOOSE r \in last : TRUE).at_ts,
        previous_state |-> IF last = {} THEN None
                           ELSE (CHOOSE r \in last : TRUE).from_state,
        latest_gateway |-> IF sm = None THEN None ELSE sm.gateway,
        latest_mx |-> IF sm = None THEN None ELSE sm.mx,
        latest_ipsec |-> IF sm = None THEN None ELSE sm.ipsec,
        latest_sample_ts |-> IF sm = None THEN None ELSE sm.ts,
        uptime_strict |-> Round6(sec_up, total),
        uptime_lenient |-> Round6(sec_up + sec_deg, total)]

\* the office names of the model in the order ORDER BY sla.office puts them
SortedNames == <<"HQ", "Remote", "UNKNOWN">>

\* GET /sla
sla(db, q, clock, pick) ==
    LET w == Window(q, clock)
        found == SlaOffices(db, q, w)
        order == SelectSeq(SortedNames, LAMBDA n : \E o \in found : o.name = n)
        rows == [i \in 1..Len(order) |->
                    SlaRow(db, CHOOSE o \in found : o.name = order[i], w, pick)]
    IN [db |-> db,
        resp |-> [op |-> "sla", req |-> q, clock |-> clock, status |-> 200,
                  window |-> w, sla |-> rows]]

\* a query ends the run: it changes nothing in the store, so the calls that
\* could follow it are the calls that can follow the state before it
Sla(q, clock) ==
    /\ budget.calls > 0
    /\ \E pick \in SamplePicks(Db, Window(q, clock).t_end) :
          LET r == sla(Db, q, clock, pick)
          IN /\ db_offices' = r.db.offices
             /\ state_changes' = r.db.state_changes
             /\ samples' = r.db.samples
             /\ resp' = r.resp
    /\ budget' = [budget EXCEPT !.calls = 0]
    /\ UNCHANGED mon_vars

(***************************************************************************)
(* Requests.                                                               *)
(***************************************************************************)
States == {"up", "degraded", "down"}

Payloads == Recs("HQ") \cup {BaseRec("Remote")}

CallerNames == {"HQ", "Remote", "UNKNOWN"}

\* the sample of a state-change event: the triple that classifies as its
\* state, as probe_office sends it
SampleOf(st) ==
    [gateway |-> st # "down", mx |-> FALSE, ipsec |-> st = "up"]

\* events for the two offices a caller may have registered, one with a sample
\* dict that lacks the three keys, and one for a name nobody registers
Events ==
    {[office |-> n, state |-> st, sample |-> SampleOf(st), at |-> at] :
        n \in OfficeNames, st \in States, at \in 0..MaxTs}
    \cup {[office |-> "HQ", state |-> "down", sample |-> EmptyDict, at |-> 0],
          [office |-> "UNKNOWN", state |-> "down", sample |-> SampleOf("down"),
           at |-> MaxTs]}

TickHQ == [office |-> "HQ", gateway |-> TRUE, mx |-> FALSE, ipsec |-> TRUE, ts |-> 10]

TickRemote == [office |-> "Remote", state |-> "down", gateway |-> FALSE,
               mx |-> FALSE, ipsec |-> TRUE, ts |-> 20]

TickUnknown == [office |-> "UNKNOWN", gateway |-> TRUE, mx |-> TRUE, ipsec |-> TRUE,
                ts |-> 42]

\* the entry the ticker builds for an office that was never sampled
TickUnsampled == [office |-> "HQ", state |-> "unknown"]

Batches ==
    {<<>>, <<TickHQ>>, <<TickHQ, TickHQ>>, <<TickHQ, TickRemote>>,
     <<TickHQ, TickUnknown>>, <<TickUnknown, TickHQ>>, <<TickHQ, TickUnsampled>>}

\* the requests of SpecSla: the history of the SLA test of the API (changes
\* at 0, 30 and 90) in every order and with every state, and a second office
SlaTimes == {0, 30, 90}

SlaPayloads == {BaseRec("HQ"), BaseRec("Remote")}

SlaEvents ==
    {[office |-> "HQ", state |-> st, sample |-> SampleOf(st), at |-> at] :
        st \in States, at \in SlaTimes}
    \cup {[office |-> "Remote", state |-> "up", sample |-> SampleOf("up"), at |-> 30]}

SlaBatches == {<<TickHQ>>, <<TickHQ, TickRemote>>}

\* each query parameter omitted or supplied; windows that start at, between
\* and after the changes, that end at a change, and that are inverted
SlaStarts == {0, 10, 60}

SlaEnds == {0, 30, 90, 150}

Queries ==
    {Merge(o, Merge(a, b)) :
        o \in {EmptyDict, [office |-> "HQ"], [office |-> "UNKNOWN"]},
        a \in {EmptyDict} \cup {[t_start |-> t] : t \in SlaStarts},
        b \in {EmptyDict} \cup {[t_end |-> t] : t \in SlaEnds}}

\* int(time.time()) at the query
Clocks == {200}

(***************************************************************************)
(* Specifications.                                                         *)
(***************************************************************************)
StoreEmpty ==
    /\ db_offices = <<>>
    /\ state_changes = <<>>
    /\ samples = <<>>
    /\ resp = [op |-> "none"]

\* the parts of the monitor a specification does not follow
LimiterIdle ==
    /\ limiter = [capacity |-> DefaultPingConcurrency, value |-> DefaultPingConcurrency,
                  waiters |-> <<>>]
    /\ pings = EmptyDict

OneshotOff == oneshot = [pc |-> "off", tids |-> EmptyDict]

IngestorIdle ==
    /\ ticker = [pc |-> "off", post |-> None]
    /\ ingestor = [session |-> "open"]
    /\ pj = [caller |-> "none"]

WatcherOff ==
    /\ watcher = [pc |-> "off", seen |-> FALSE, last_mtime |-> 0, mtime |-> 0,
                  error |-> "none"]
    /\ file = [exists |-> FALSE, mtime |-> 0,
               content |-> [form |-> "mapping", offices |-> <<>>]]

\* no task of a removed office is followed
NoOrphans == orphans = EmptyDict

ExtIdle == LimiterIdle /\ OneshotOff /\ IngestorIdle /\ WatcherOff /\ NoOrphans

\* the monitor after OfficeManager.__init__
InitMonitor ==
    /\ offices = EmptyDict
    /\ tasks = EmptyDict
    /\ hashes = EmptyDict
    /\ hist = EmptyDict
    /\ cancelled = {}
    /\ next_tid = 1
    /\ rc = [pc |-> "idle", op |-> "none", pending |-> <<>>, post |-> None,
             cfg |-> [offices |-> <<>>]]
    /\ now = 0
    /\ budget = [cycles |-> MaxMonCycles, reloads |-> MaxReloads, calls |-> 0]
    /\ StoreEmpty
    /\ ExtIdle

NextMonitor ==
    \/ \E cfg \in Cfgs : Reconcile(cfg)
    \/ ReconcilePostReturn
    \/ \E n \in OfficeNames, r \in MonOutcomes : ProbeCycle(n, r[1], r[2], r[3])
    \/ \E n \in OfficeNames : ProbePostReturn(n)

SpecMonitor == InitMonitor /\ [][NextMonitor]_vars

\* one office, HQ, monitored under thresholds drawn from 1..MaxRetries: the
\* manager after reconcile of a one-office snapshot has completed
InitDebounce ==
    \E rd \in 1..MaxRetries, ru \in 1..MaxRetries :
        LET rec == WithRetries(BaseRec("HQ"), rd, ru)
        IN /\ offices = ("HQ" :> NewOffice(rec, 0))
           /\ tasks = ("HQ" :> NewTask(1))
           /\ hashes = ("HQ" :> hash_office_record(rec))
           /\ hist = ("HQ" :> <<>>)
           /\ cancelled = {}
           /\ next_tid = 2
           /\ rc = [pc |-> "idle", op |-> "none", pending |-> <<>>, post |-> None,
                    cfg |-> [offices |-> <<rec>>]]
           /\ now = 0
           /\ budget = [cycles |-> MaxCycles, reloads |-> 0, calls |-> 0]
           /\ StoreEmpty
           /\ ExtIdle

NextDebounce ==
    \/ \E r \in Outcomes : ProbeCycle("HQ", r[1], r[2], r[3])
    \/ ProbePostReturn("HQ")

SpecDebounce == InitDebounce /\ [][NextDebounce]_vars

\* the store after init() on an empty database file
InitStore ==
    /\ offices = EmptyDict
    /\ tasks = EmptyDict
    /\ hashes = EmptyDict
    /\ hist = EmptyDict
    /\ cancelled = {}
    /\ next_tid = 1
    /\ rc = [pc |-> "idle", op |-> "none", pending |-> <<>>, post |-> None,
             cfg |-> [offices |-> <<>>]]
    /\ now = 0
    /\ budget = [cycles |-> 0, reloads |-> 0, calls |-> MaxCalls]
    /\ StoreEmpty
    /\ ExtIdle

NextStore ==
    \/ \E p \in Payloads : UpsertOffice(p)
    \/ \E ev \in Events : IngestStateChange(ev)
    \/ \E batch \in Batches : IngestTick(batch)

SpecStore == InitStore /\ [][NextStore]_vars

\* the store after init() on an empty database file, before a run that ends
\* with a query
InitSla ==
    /\ offices = EmptyDict
    /\ tasks = EmptyDict
    /\ hashes = EmptyDict
    /\ hist = EmptyDict
    /\ cancelled = {}
    /\ next_tid = 1
    /\ rc = [pc |-> "idle", op |-> "none", pending |-> <<>>, post |-> None,
             cfg |-> [offices |-> <<>>]]
    /\ now = 0
    /\ budget = [cycles |-> 0, reloads |-> 0, calls |-> MaxSlaCalls]
    /\ StoreEmpty
    /\ ExtIdle

NextSla ==
    \/ \E p \in SlaPayloads : UpsertOffice(p)
    \/ \E ev \in SlaEvents : IngestStateChange(ev)
    \/ \E batch \in SlaBatches : IngestTick(batch)
    \/ \E q \in Queries, clock \in Clocks : Sla(q, clock)

SpecSla == InitSla /\ [][NextSla]_vars

\* run() with ping_concurrency drawn from 1..MaxCapacity: either the one-shot
\* pass over a two-office file, just after oneshot created its probe_single
\* tasks and these their pings, or the manager after its first reconcile of
\* that file has completed
InitLimiter ==
    \E c \in 1..MaxCapacity, once \in BOOLEAN :
        /\ limiter = [capacity |-> c, value |-> c, waiters |-> <<>>]
        /\ IF once
           THEN /\ offices = EmptyDict
                /\ tasks = EmptyDict
                /\ hashes = EmptyDict
                /\ hist = EmptyDict
                /\ next_tid = 1
                /\ oneshot = [pc |-> "gather", tids |-> ("HQ" :> 1 @@ "Remote" :> 2)]
                /\ pings = [t \in {1, 2} |-> [k \in Kinds |-> "start"]]
                /\ budget = [cycles |-> 0, reloads |-> 0, calls |-> 0]
           ELSE /\ offices = [n \in OfficeNames |-> NewOffice(BaseRec(n), 0)]
                /\ tasks = ("HQ" :> NewTask(1) @@ "Remote" :> NewTask(2))
                /\ hashes = [n \in OfficeNames |-> hash_office_record(BaseRec(n))]
                /\ hist = [n \in OfficeNames |-> <<>>]
                /\ next_tid = 3
                /\ OneshotOff
                /\ pings = EmptyDict
                /\ budget = [cycles |-> MaxLimCycles, reloads |-> MaxLimReloads,
                             calls |-> 0]
        /\ cancelled = {}
        /\ rc = [pc |-> "idle", op |-> "none", pending |-> <<>>, post |-> None,
                 cfg |-> [offices |-> <<BaseRec("HQ"), BaseRec("Remote")>>]]
        /\ now = 0
        /\ StoreEmpty
        /\ IngestorIdle
        /\ WatcherOff
        /\ NoOrphans

\* the snapshots of SpecLimiter: the file after one of its offices was deleted
LimCfgs ==
    {[offices |-> <<BaseRec("HQ")>>],
     [offices |-> <<BaseRec("Remote")>>]}

\* the ids of the probe tasks of a run of SpecLimiter
TaskIdsOfRun == {1, 2}

\* the results ping_host returns in a run of SpecLimiter: the gateway may fail
\* to answer, the MX and the tunnel probe answer
LimResults(k) == IF k = "gateway" THEN BOOLEAN ELSE {TRUE}

NextLimiter ==
    \/ \E n \in OfficeNames : ProbeStart(n)
    \/ \E t \in TaskIdsOfRun, k \in Kinds : PingAcquire(t, k)
    \/ \E t \in TaskIdsOfRun, k \in Kinds : \E ok \in LimResults(k) : PingDone(t, k, ok)
    \/ \E t \in TaskIdsOfRun, k \in Kinds : PingCancelled(t, k)
    \/ \E n \in OfficeNames : ProbeGathered(n)
    \/ \E n \in OfficeNames : ProbePostReturn(n)
    \/ \E cfg \in LimCfgs : Reconcile(cfg)
    \/ OneshotReturn

SpecLimiter == InitLimiter /\ [][NextLimiter]_vars

\* one office, HQ, that commits on the first differing sample, its probe task
\* and the ticker of run(); the Ingestor with its session open (as in run())
\* or never entered
InitDelivery ==
    \E session \in {"open", "none"} :
        LET rec == WithRetries(BaseRec("HQ"), 1, 1)
        IN /\ offices = ("HQ" :> NewOffice(rec, 0))
           /\ tasks = ("HQ" :> NewTask(1))
           /\ hashes = ("HQ" :> hash_office_record(rec))
           /\ hist = ("HQ" :> <<>>)
           /\ cancelled = {}
           /\ next_tid = 2
           /\ rc = [pc |-> "idle", op |-> "none", pending |-> <<>>, post |-> None,
                    cfg |-> [offices |-> <<rec>>]]
           /\ now = 0
           /\ budget = [cycles |-> MaxDeliveryCycles, reloads |-> 0, calls |-> 0]
           /\ StoreEmpty
           /\ LimiterIdle
           /\ OneshotOff
           /\ WatcherOff
           /\ NoOrphans
           /\ ticker = [pc |-> "wait", post |-> None]
           /\ ingestor = [session |-> session]
           /\ pj = [caller |-> "none"]

NextDelivery ==
    \/ \E r \in MonOutcomes : ProbeCycle("HQ", r[1], r[2], r[3])
    \/ \E t \in Transports : ProbePostDone("HQ", t)
    \/ TickerPost
    \/ \E t \in Transports : TickerPostDone(t)

SpecDelivery == InitDelivery /\ [][NextDelivery]_vars

\* one office, HQ, under thresholds drawn from 1..MaxRetries, after the
\* reconcile that added it has completed and its /offices post was stored;
\* the clock runs, and the posts of its probe task reach the store
InitClock ==
    \E rd \in 1..MaxRetries, ru \in 1..MaxRetries :
        LET rec == WithRetries(BaseRec("HQ"), rd, ru)
            o == NewOffice(rec, 0)
        IN /\ offices = ("HQ" :> o)
           /\ tasks = ("HQ" :> NewTask(1))
           /\ hashes = ("HQ" :> hash_office_record(rec))
           /\ hist = ("HQ" :> <<>>)
           /\ cancelled = {}
           /\ next_tid = 2
           /\ rc = [pc |-> "idle", op |-> "none", pending |-> <<>>, post |-> None,
                    cfg |-> [offices |-> <<rec>>]]
           /\ now = 0
           /\ budget = [cycles |-> MaxClockCycles, reloads |-> 0, calls |-> 0]
           /\ db_offices = upsert_office([offices |-> <<>>, state_changes |-> <<>>,
                                          samples |-> <<>>],
                                         UpsertPost(o).payload).db.offices
           /\ state_changes = <<>>
           /\ samples = <<>>
           /\ resp = [op |-> "none"]
           /\ ExtIdle

NextClock ==
    \/ \E r \in MonOutcomes : ProbeCycle("HQ", r[1], r[2], r[3])
    \/ ProbePostDelivered("HQ")
    \/ Tick

SpecClock == InitClock /\ [][NextClock]_vars

\* run() has loaded offices.yaml, which names HQ, its first reconcile has
\* completed and the watcher task was created; last_mtime is None
InitWatch ==
    LET rec == BaseRec("HQ")
    IN /\ offices = ("HQ" :> NewOffice(rec, 0))
       /\ tasks = ("HQ" :> NewTask(1))
       /\ hashes = ("HQ" :> hash_office_record(rec))
       /\ hist = ("HQ" :> <<>>)
       /\ cancelled = {}
       /\ next_tid = 2
       /\ rc = [pc |-> "idle", op |-> "none", pending |-> <<>>, post |-> None,
                cfg |-> [offices |-> <<rec>>]]
       /\ now = 0
       /\ budget = [cycles |-> MaxWatchCycles, reloads |-> MaxWatchReloads, calls |-> 0]
       /\ StoreEmpty
       /\ LimiterIdle /\ OneshotOff /\ IngestorIdle /\ NoOrphans
       /\ watcher = [pc |-> "sleep", seen |-> FALSE, last_mtime |-> 0, mtime |-> 0,
                     error |-> "none"]
       /\ file = [exists |-> TRUE, mtime |-> 1,
                  content |-> Mapping([offices |-> <<rec>>])]

NextWatch ==
    \/ \E c \in WatchSnapshots : FileWrite(c)
    \/ FileRemove
    \/ WatchPoll
    \/ WatchPostReturn
    \/ RunExit
    \/ \E n \in OfficeNames, r \in MonOutcomes : ProbeCycle(n, r[1], r[2], r[3])
    \/ \E n \in OfficeNames : ProbePostReturn(n)

SpecWatch == InitWatch /\ [][NextWatch]_vars

\* HQ and Remote are live under a limiter with as many slots as one office
\* has probes; the file then names HQ alone or both offices again
InitRemoval ==
    LET c == Cardinality(Kinds)
    IN  /\ limiter =[capacity |-> c, value |-> c, waiters |-> <<>>]
        /\ offices = [n \in OfficeNames |-> NewOffice(BaseRec(n), 0)]
        /\ tasks = ("HQ" :> NewTask(1) @@ "Remote" :> NewTask(2))
        /\ hashes = [n \in OfficeNames |-> hash_office_record(BaseRec(n))]
        /\ hist = [n \in OfficeNames |-> <<>>]
        /\ next_tid = 3
        /\ pings = EmptyDict
        /\ budget = [cycles |-> MaxRemCycles, reloads |-> MaxRemReloads, calls |-> 0]
        /\ cancelled = {}
        /\ rc = [pc |-> "idle", op |-> "none", pending |-> <<>>, post |-> None,
                 cfg |-> [offices |-> <<BaseRec("HQ"), BaseRec("Remote")>>]]
        /\ now = 0
        /\ StoreEmpty
        /\ OneshotOff
        /\ IngestorIdle
        /\ WatcherOff
        /\ NoOrphans

RemovalCfgs ==
    {[offices |-> <<BaseRec("HQ")>>],
     [offices |-> <<BaseRec("HQ"), BaseRec("Remote")>>]}

\* the ids of the probe tasks of a run of SpecRemoval
RemovalTaskIds == 1..(2 + MaxRemReloads)

NextRemoval ==
    \/ \E n \in OfficeNames : ProbeStart(n)
    \/ \E t \in RemovalTaskIds, k \in Kinds : PingAcquire(t, k)
    \/ \E t \in RemovalTaskIds, k \in Kinds : \E ok \in LimResults(k) : PingDone(t, k, ok)
    \/ \E t \in RemovalTaskIds, k \in Kinds : PingCancelled(t, k)
    \/ \E n \in OfficeNames : ProbeGathered(n)
    \/ \E n \in OfficeNames : ProbePostReturn(n)
    \/ \E cfg \in RemovalCfgs : ReconcileRemoving(cfg)
    \/ ReconcilePostReturn
    \/ \E t \in RemovalTaskIds : OrphanResume(t)

SpecRemoval == InitRemoval /\ [][NextRemoval]_vars

\* HQ and Remote are live and stay live, under a limiter of capacity
\* 1..MaxFairCapacity
InitFair ==
    \E c \in 1..MaxFairCapacity :
        /\ limiter = [capacity |-> c, value |-> c, waiters |-> <<>>]
        /\ offices = [n \in OfficeNames |-> NewOffice(BaseRec(n), 0)]
        /\ tasks = ("HQ" :> NewTask(1) @@ "Remote" :> NewTask(2))
        /\ hashes = [n \in OfficeNames |-> hash_office_record(BaseRec(n))]
        /\ hist = [n \in OfficeNames |-> <<>>]
        /\ next_tid = 3
        /\ pings = EmptyDict
        /\ budget = [cycles |-> MaxFairCycles, reloads |-> 0, calls |-> 0]
        /\ cancelled = {}
        /\ rc = [pc |-> "idle", op |-> "none", pending |-> <<>>, post |-> None,
                 cfg |-> [offices |-> <<BaseRec("HQ"), BaseRec("Remote")>>]]
        /\ now = 0
        /\ StoreEmpty
        /\ OneshotOff
        /\ IngestorIdle
        /\ WatcherOff
        /\ NoOrphans

NextFair ==
    \/ \E n \in OfficeNames : ProbeStart(n)
    \/ \E t \in TaskIdsOfRun, k \in Kinds : PingAcquire(t, k)
    \/ \E t \in TaskIdsOfRun, k \in Kinds : \E ok \in LimResults(k) : PingDone(t, k, ok)
    \/ \E n \in OfficeNames : ProbeGathered(n)
    \/ \E n \in OfficeNames : ProbePostReturn(n)

\* the event loop runs every task that is ready; a sleep, a ping and a post
\* end (a ping by its timeout at the latest, a post by the request timeout)
FairLoop ==
    /\ \A n \in OfficeNames :
          /\ WF_vars(ProbeStart(n))
          /\ WF_vars(ProbeGathered(n))
          /\ WF_vars(ProbePostReturn(n))
    /\ \A t \in TaskIdsOfRun, k \in Kinds :
          /\ WF_vars(PingAcquire(t, k))
          /\ WF_vars(\E ok \in LimResults(k) : PingDone(t, k, ok))

SpecFair == InitFair /\ [][NextFair]_vars /\ FairLoop

\* run() against the API: the monitor is about to seed the manager from
\* base_cfg, the store is empty, and the posts of reconcile, of probe_office
\* and of ticker are answered by the API or lost; a client queries /sla once
InitPipeline ==
    /\ offices = EmptyDict
    /\ tasks = EmptyDict
    /\ hashes = EmptyDict
    /\ hist = EmptyDict
    /\ cancelled = {}
    /\ next_tid = 1
    /\ rc = [pc |-> "idle", op |-> "none", pending |-> <<>>, post |-> None,
             cfg |-> [offices |-> <<>>]]
    /\ now = 0
    /\ budget = [cycles |-> MaxPipeCycles, reloads |-> MaxPipeReloads, calls |-> 1]
    /\ StoreEmpty
    /\ ExtIdle

\* the snapshots of a run: both offices, and HQ alone
PipeCfgs == {[offices |-> <<BaseRec("HQ"), BaseRec("Remote")>>],
             [offices |-> <<BaseRec("HQ")>>]}

\* all three pings answer, or none does
PipeOutcomes == {<<TRUE, TRUE, TRUE>>, <<FALSE, FALSE, FALSE>>}

\* the queries of the client: the past of Remote, and of every office
PipeQueries == {[office |-> "Remote", t_start |-> -10, t_end |-> 10],
                [t_start |-> -10, t_end |-> 10]}

NextPipeline ==
    \/ \E cfg \in PipeCfgs :
          /\ ticker.pc = "off" => budget.reloads = MaxPipeReloads
          /\ Reconcile(cfg)
    \/ ReconcilePostDelivered
    \/ ReconcilePostReturn
    \/ budget.reloads < MaxPipeReloads /\ TickerStart
    \/ \E n \in OfficeNames, r \in PipeOutcomes : ProbeCycle(n, r[1], r[2], r[3])
    \/ \E n \in OfficeNames : ProbePostDelivered(n)
    \/ \E n \in OfficeNames : ProbePostReturn(n)
    \/ Len(samples) < MaxPipeSamples /\ TickerPost
    \/ TickerPostDelivered
    \/ \E q \in PipeQueries : Sla(q, 200)

SpecPipeline == InitPipeline /\ [][NextPipeline]_vars

\* the manager of SpecMonitor under reloads of every snapshot of Cfgs, with
\* one probe cycle between them
InitReload ==
    /\ offices = EmptyDict
    /\ tasks = EmptyDict
    /\ hashes = EmptyDict
    /\ hist = EmptyDict
    /\ cancelled = {}
    /\ next_tid = 1
    /\ rc = [pc |-> "idle", op |-> "none", pending |-> <<>>, post |-> None,
             cfg |-> [offices |-> <<>>]]
    /\ now = 0
    /\ budget = [cycles |-> MaxReloadCycles, reloads |-> MaxReloadCalls, calls |-> 0]
    /\ StoreEmpty
    /\ ExtIdle

SpecReload == InitReload /\ [][NextMonitor]_vars

(***************************************************************************)
(* The debounce machine (SpecDebounce).                                    *)
(***************************************************************************)
Deterioration(N, S) == N \in {"down", "degraded"} /\ S \in {"up", "unknown"}

\* the table of the debounce state machine: confirmed state S, fail-streak fs
\* and ok-streak os after classification N, and whether S <- N is committed
TableStep(S, fs, os, rd, ru, N) ==
    CASE N = S ->
            [state |-> S, fail |-> 0, ok |-> os + 1, commit |-> FALSE]
      [] N # S /\ Deterioration(N, S) /\ fs + 1 >= rd ->
            [state |-> N, fail |-> 0, ok |-> 0, commit |-> TRUE]
      [] N # S /\ Deterioration(N, S) /\ fs + 1 < rd ->
            [state |-> S, fail |-> fs + 1, ok |-> os, commit |-> FALSE]
      [] N # S /\ ~Deterioration(N, S) /\ os + 1 >= ru ->
            [state |-> N, fail |-> 0, ok |-> 0, commit |-> TRUE]
      [] N # S /\ ~Deterioration(N, S) /\ os + 1 < ru ->
            [state |-> S, fail |-> fs, ok |-> os + 1, commit |-> FALSE]

LastN(s, k) == SubSeq(s, Len(s) - k + 1, Len(s))

Classes(s) == [i \in 1..Len(s) |-> s[i].n]

Commits(s) == [i \in 1..Len(s) |-> s[i].changed]

ScenarioSamples == <<"up", "down", "up", "down", "down", "up">>

\* the last six samples of HQ were up, down, up, down, down, up, taken from
\* confirmed up under retries_down = 2, retries_up = 1
ScenarioRan ==
    /\ offices["HQ"].retries_down = 2
    /\ offices["HQ"].retries_up = 1
    /\ Len(hist["HQ"]) >= 6
    /\ Classes(LastN(hist["HQ"], 6)) = ScenarioSamples
    /\ LastN(hist["HQ"], 6)[1].from = "up"

C1_StepFollowsTable ==
    hist'["HQ"] # hist["HQ"] =>
        LET o == offices["HQ"]
            o2 == offices'["HQ"]
            e == hist'["HQ"][Len(hist'["HQ"])]
            t == TableStep(o.state, o.fail_streak, o.ok_streak,
                           o.retries_down, o.retries_up, e.n)
        IN /\ o2.state = t.state
           /\ o2.fail_streak = t.fail
           /\ o2.ok_streak = t.ok
           /\ e.changed = t.commit
           /\ e.changed <=> (o2.state # o.state)

C1_Scenario ==
    ScenarioRan =>
        LET w == LastN(hist["HQ"], 6)
        IN /\ Commits(w) = <<FALSE, FALSE, FALSE, FALSE, TRUE, TRUE>>
           /\ w[5].from = "up" /\ w[6].from = "down"
           /\ offices["HQ"].state = "up"

\* C1: every debounce step of probe_office follows the table of the debounce
\* state machine (N = S: ok-streak + 1, fail-streak reset, no commit;
\* deterioration from up/unknown: fail-streak + 1, commit iff it reaches
\* retries_down; otherwise ok-streak + 1, commit iff it reaches retries_up), and
\* from confirmed up with retries_down = 2, retries_up = 1 the samples up, down,
\* up, down, down, up commit exactly up -> down on the fifth and down -> up on
\* the sixth.
C1_DebounceFollowsTable == [][C1_StepFollowsTable]_vars /\ []C1_Scenario

C1_Witness == ScenarioRan /\ hist["HQ"][Len(hist["HQ"])].changed

\* C2: whenever a change of the confirmed state to N is committed, the k most
\* recent samples (k = retries_down for a deterioration from up/unknown,
\* k = retries_up otherwise) were all classified N.
C2_CommitNeedsKConsecutive ==
    LET h == hist["HQ"]
        o == offices["HQ"]
    IN (h # <<>> /\ h[Len(h)].changed) =>
          LET e == h[Len(h)]
              k == IF Deterioration(e.n, e.from) THEN o.retries_down ELSE o.retries_up
          IN /\ Len(h) >= k
             /\ \A i \in 1..Len(h) : i > Len(h) - k => h[i].n = e.n

(***************************************************************************)
(* Reconciliation (SpecMonitor).                                           *)
(***************************************************************************)
\* the record of office n in snapshot cfg
RecOf(cfg, n) == CHOOSE r \in {cfg.offices[i] : i \in 1..Len(cfg.offices)} : r.name = n

\* the configuration fields of runtime record o are those of snapshot record rec
ConfigIs(o, rec) ==
    /\ o.gateway_ip = rec.gateway_ip
    /\ o.mx_ip = rec.mx_ip
    /\ o.tunnel_probe_ip = rec.tunnel_probe_ip
    /\ o.retries_down = (IF "retries_down" \in DOMAIN rec THEN rec.retries_down ELSE 2)
    /\ o.retries_up = (IF "retries_up" \in DOMAIN rec THEN rec.retries_up ELSE 1)

\* this step of reconcile took the update branch for the live office n
UpdateStep(n) ==
    /\ rc' # rc
    /\ rc'.op = "update"
    /\ rc'.post # None
    /\ rc'.post.payload.name = n

C3_UpdateFrame ==
    \A n \in OfficeNames : UpdateStep(n) =>
        LET o == offices[n]
            o2 == offices'[n]
            rec == RecOf(rc'.cfg, n)
        IN /\ n \in DOMAIN offices /\ n \in DOMAIN offices'
           /\ ~ConfigIs(o, rec)
           /\ o2.state = o.state
           /\ o2.fail_streak = o.fail_streak
           /\ o2.ok_streak = o.ok_streak
           /\ o2.last_sample = o.last_sample
           /\ tasks'[n] = tasks[n]
           /\ tasks[n].id \notin cancelled'
           /\ next_tid' = next_tid
           /\ ConfigIs(o2, rec)
           /\ rc'.post.path = "/offices"
           /\ ConfigIs(rc'.post.payload, WithRetries(rec, o2.retries_down, o2.retries_up))
           /\ \A i \in 1..Len(rc'.pending) : rc'.pending[i].name # n

\* when reconcile has completed, every live office runs under the
\* configuration of the snapshot
C3_Applied ==
    rc.pc = "idle" =>
        \A i \in 1..Len(rc.cfg.offices) :
            LET rec == rc.cfg.offices[i]
            IN rec.name \in DOMAIN offices /\ ConfigIs(offices[rec.name], rec)

\* C3: reconciling an already-live office whose IPs or retries_* changed
\* changes only the configuration fields of its runtime record: confirmed
\* state, both streaks and last_sample are kept, the probe task is neither
\* cancelled nor replaced, the record holds the new values, and one /offices
\* upsert carrying them is issued.
C3_ReconcileUpdateInPlace == [][C3_UpdateFrame]_vars /\ []C3_Applied

C3_Witness ==
    /\ rc.op = "update"
    /\ \E n \in DOMAIN offices :
          /\ rc.post.payload.name = n
          /\ offices[n].state # "unknown"
          /\ offices[n].ok_streak > 0
          /\ offices[n].last_sample # EmptyDict
          /\ offices[n].retries_up = 2

TaskIds(tks) == {tks[n].id : n \in DOMAIN tks}

C4_Tasks ==
    /\ DOMAIN tasks = DOMAIN offices
    /\ DOMAIN hashes = DOMAIN offices
    /\ \A n, m \in DOMAIN tasks : tasks[n].id = tasks[m].id => n = m
    /\ TaskIds(tasks) \cap cancelled = {}
    /\ TaskIds(tasks) \cup cancelled = 1..(next_tid - 1)
    /\ rc.pc = "idle" => DOMAIN offices = Names(rc.cfg)

C4_Step ==
    /\ (rc.pc = "idle" /\ budget'.reloads # budget.reloads) =>
          \A n \in (DOMAIN offices) \ Names(rc'.cfg) :
              /\ tasks[n].id \in cancelled'
              /\ n \notin DOMAIN offices'
              /\ n \notin DOMAIN tasks'
    /\ \A n \in (DOMAIN offices') \ (DOMAIN offices) :
          /\ offices'[n].state = "unknown"
          /\ offices'[n].fail_streak = 0
          /\ offices'[n].ok_streak = 0
          /\ tasks'[n].id \notin TaskIds(tasks) \cup cancelled

\* C4: when a reconcile against snapshot D has completed the live offices are
\* those of D, every live office has exactly one probe task (and every other
\* task ever created is cancelled), an office absent from D has its task
\* cancelled and its runtime dropped, and a newly added office starts with
\* confirmed state unknown and both streaks zero.
C4_ReconcileLiveSet == []C4_Tasks /\ [][C4_Step]_vars

C4_Witness ==
    /\ rc.pc = "idle"
    /\ cancelled # {}
    /\ DOMAIN offices # {}
    /\ \E n \in DOMAIN offices : tasks[n].id > 1

(***************************************************************************)
(* The ingest surface (SpecStore).                                         *)
(***************************************************************************)
\* C5: for every office the state_changes rows ordered by at_ts form a chain:
\* the to_state of each row is the from_state of the next row, in whatever
\* order the events arrived.
C5_Chain ==
    \A r, q \in Rows(state_changes) :
        (/\ r.office_id = q.office_id
         /\ r.at_ts < q.at_ts
         /\ ~\E m \in Rows(state_changes) :
                m.office_id = r.office_id /\ r.at_ts < m.at_ts /\ m.at_ts < q.at_ts)
        => r.to_state = q.from_state

LastRow(t) == t[Len(t)]

C6_Step ==
    (resp'.op = "state_change" /\ resp'.status = 200 /\ resp'.inserted = 1) =>
        LET ev == resp'.req
            r == LastRow(state_changes')
            earlier == {q \in Rows(state_changes) :
                            q.office_id = r.office_id /\ q.at_ts < ev.at}
        IN /\ Len(state_changes') = Len(state_changes) + 1
           /\ r.office_id \in SelectOfficeId(db_offices, ev.office)
           /\ r.at_ts = ev.at
           /\ r.to_state = ev.state
           /\ IF earlier = {}
              THEN r.from_state = "unknown"
              ELSE \E p \in earlier :
                      /\ \A q \in earlier : q.at_ts <= p.at_ts
                      /\ r.from_state = p.to_state

\* C6: the row ingest_state_change inserts for (office, at) has as from_state
\* the to_state of the stored row of that office with the greatest at_ts
\* below at, or unknown when there is none.
C6_FromStateDerived == [][C6_Step]_vars

C6_Witness ==
    /\ resp.op = "state_change" /\ resp.status = 200 /\ resp.inserted = 1
    /\ Len(state_changes) = 3
    /\ state_changes[1].office_id = state_changes[3].office_id
    /\ state_changes[2].office_id = state_changes[3].office_id
    /\ state_changes[2].at_ts < state_changes[1].at_ts
    /\ state_changes[1].at_ts < state_changes[3].at_ts
    /\ state_changes[1].to_state # state_changes[2].to_state
    /\ state_changes[3].from_state = state_changes[1].to_state

C7_Step ==
    (resp'.op = "state_change" /\ SelectOfficeId(db_offices, resp'.req.office) # {}) =>
        LET ev == resp'.req
            ids == SelectOfficeId(db_offices, ev.office)
            n == Len(state_changes)
        IN /\ resp'.status = 200
           /\ IF \E r \in Rows(state_changes) : r.office_id \in ids /\ r.at_ts = ev.at
              THEN resp'.inserted = 0 /\ state_changes' = state_changes
              ELSE /\ resp'.inserted = 1
                   /\ Len(state_changes') = n + 1
                   /\ SubSeq(state_changes', 1, n) = state_changes
                   /\ LastRow(state_changes').office_id \in ids
                   /\ LastRow(state_changes').at_ts = ev.at

C7_Unique ==
    \A i, j \in 1..Len(state_changes) :
        (/\ state_changes[i].office_id = state_changes[j].office_id
         /\ state_changes[i].at_ts = state_changes[j].at_ts) => i = j

\* C7: a state change submitted for an (office, at) that already has a row,
\* whatever its state or sample, succeeds with inserted = 0 and changes no
\* row; one for a new (office, at) returns inserted = 1 and adds exactly one
\* row; no two rows of an office share at_ts.
C7_ExactlyOnce == [][C7_Step]_vars /\ []C7_Unique

C7_Witness ==
    /\ resp.op = "state_change" /\ resp.status = 200 /\ resp.inserted = 0
    /\ \E r \in Rows(state_changes) :
          /\ r.office_id \in SelectOfficeId(db_offices, resp.req.office)
          /\ r.at_ts = resp.req.at
          /\ r.to_state # resp.req.state

C8_Step ==
    (resp'.op = "state_change" /\ SelectOfficeId(db_offices, resp'.req.office) = {}) =>
        /\ resp'.status = 400
        /\ resp'.detail = "Unknown office '" \o resp'.req.office \o "'"
        /\ db_offices' = db_offices
        /\ state_changes' = state_changes
        /\ samples' = samples

\* C8: a state change for an office name that is not registered fails with
\* 400 "Unknown office" and leaves offices, state_changes and samples as
\* they were; the office is not created.
C8_UnknownOfficeRejected == [][C8_Step]_vars

C8_Witness ==
    /\ resp.op = "state_change" /\ resp.status = 400
    /\ SelectOfficeId(db_offices, resp.req.office) = {}
    /\ db_offices # <<>>
    /\ state_changes # <<>>

\* the first entry of the batch whose office is not registered, if any
FirstUnknown(t, batch) ==
    {i \in 1..Len(batch) :
        /\ SelectOfficeId(t, batch[i].office) = {}
        /\ \A j \in 1..(i - 1) : SelectOfficeId(t, batch[j].office) # {}}

AsInt(b) == IF b THEN 1 ELSE 0

C9_Step ==
    (/\ resp'.op = "tick"
     /\ \A i \in 1..Len(resp'.req) :
           {"gateway", "mx", "ipsec", "ts"} \subseteq DOMAIN resp'.req[i]) =>
        LET b == resp'.req
            n == Len(samples)
            bad == FirstUnknown(db_offices, b)
        IN /\ db_offices' = db_offices
           /\ state_changes' = state_changes
           /\ IF bad # {}
              THEN /\ resp'.status = 400
                   /\ \E i \in bad : resp'.detail = "Unknown office '" \o b[i].office \o "'"
                   /\ samples' = samples
              ELSE /\ resp'.status = 200
                   /\ resp'.count = Len(b)
                   /\ Len(samples') = n + Len(b)
                   /\ SubSeq(samples', 1, n) = samples
                   /\ \A i \in 1..Len(b) :
                         /\ samples'[n + i].office_id \in SelectOfficeId(db_offices, b[i].office)
                         /\ samples'[n + i].ts = b[i].ts
                         /\ samples'[n + i].gateway = AsInt(b[i].gateway)
                         /\ samples'[n + i].mx = AsInt(b[i].mx)
                         /\ samples'[n + i].ipsec = AsInt(b[i].ipsec)

\* C9: a tick batch naming an unregistered office fails with Unknown office
\* and persists no sample of the batch, not even for the entries before the
\* unknown one; a batch of registered offices appends one samples row per
\* entry, duplicates included, and reports count = length of the batch.
C9_TickAtomic == [][C9_Step]_vars

C9_Witness ==
    /\ resp.op = "tick" /\ resp.status = 400
    /\ Len(resp.req) = 2
    /\ SelectOfficeId(db_offices, resp.req[1].office) # {}
    /\ Len(samples) = 2
    /\ samples[1].office_id = samples[2].office_id
    /\ samples[1].ts = samples[2].ts

C10_Step ==
    resp'.op = "upsert" =>
        LET p == resp'.req
            old == SelectOfficeId(db_offices, p.name)
            n == Len(db_offices)
            rd == IF "retries_down" \in DOMAIN p THEN p.retries_down ELSE 2
            ru == IF "retries_up" \in DOMAIN p THEN p.retries_up ELSE 1
        IN /\ resp'.status = 200
           /\ SelectOfficeId(db_offices', p.name) = {resp'.office_id}
           /\ old # {} => (old = {resp'.office_id} /\ Len(db_offices') = n)
           /\ old = {} => (Len(db_offices') = n + 1
                           /\ \A r \in Rows(db_offices) : r.id # resp'.office_id)
           /\ \A i \in 1..Len(db_offices') :
                 IF db_offices'[i].name = p.name
                 THEN /\ db_offices'[i].gateway_ip = p.gateway_ip
                      /\ db_offices'[i].mx_ip = p.mx_ip
                      /\ db_offices'[i].tunnel_probe_ip = p.tunnel_probe_ip
                      /\ db_offices'[i].retries_down = rd
                      /\ db_offices'[i].retries_up = ru
                 ELSE i <= n /\ db_offices'[i] = db_offices[i]
           /\ state_changes' = state_changes
           /\ samples' = samples

\* the id of a registered name is the same after every call
C10_IdStable ==
    \A r \in Rows(db_offices) : SelectOfficeId(db_offices', r.name) = {r.id}

C10_NamesUnique ==
    \A i, j \in 1..Len(db_offices) :
        (db_offices[i].name = db_offices[j].name \/ db_offices[i].id = db_offices[j].id)
            => i = j

\* C10: every upsert of a name returns the same id, an upsert of the payload
\* already stored leaves the registry as it is, an upsert with other IPs or
\* retries_* overwrites those fields of the existing row and no other row, and
\* no upsert changes a state_changes or samples row.
C10_UpsertIdempotent == [][C10_Step /\ C10_IdStable]_vars /\ []C10_NamesUnique

C10_Witness ==
    /\ resp.op = "upsert" /\ resp.office_id = 1
    /\ Len(db_offices) = 2
    /\ db_offices[1].gateway_ip = "10.0.0.9"
    /\ state_changes # <<>>

(***************************************************************************)
(* The SLA query (SpecSla).                                                *)
(***************************************************************************)
\* the window a request asks for: a supplied bound as given, the default for
\* an omitted one
Requested(q, clock) ==
    LET t_end == IF "t_end" \in DOMAIN q THEN q.t_end ELSE clock
        t_start == IF "t_start" \in DOMAIN q THEN q.t_start ELSE t_end - DaySeconds
    IN [t_start |-> t_start, t_end |-> t_end]

ChangesOf(oid) == {r \in Rows(state_changes) : r.office_id = oid}

\* the state of office oid during second s: the to_state of its latest change
\* at or before s
StateAt(oid, s) ==
    LET past == {r \in ChangesOf(oid) : r.at_ts <= s}
    IN IF past = {} THEN "none"
       ELSE (CHOOSE r \in past : \A x \in past : x.at_ts <= r.at_ts).to_state

\* the seconds of [a, b) office oid spent in state st, counted one by one
\* (no second before the first change of the office has a state)
RefSeconds(oid, st, a, b) ==
    IF ChangesOf(oid) = {} THEN 0
    ELSE LET first == CHOOSE m \in {r.at_ts : r \in ChangesOf(oid)} :
                          \A r \in ChangesOf(oid) : m <= r.at_ts
             from == IF a < first THEN first ELSE a
         IN Cardinality({x \in from..(b - 1) : StateAt(oid, x) = st})

\* the changes of every office were stored in increasing order of at_ts
SubmittedIncreasing ==
    \A r1, r2 \in Rows(state_changes) :
        (r1.office_id = r2.office_id /\ r1.id < r2.id) => r1.at_ts < r2.at_ts

\* the rows of the response just returned that are about office n
RowsOf(n) == {resp'.sla[i] : i \in {k \in 1..Len(resp'.sla) : resp'.sla[k].office = n}}

Admits(q, n) == "office" \in DOMAIN q => q.office = n

\* C11: after changes submitted with strictly increasing at per office, a
\* query over a supplied window t_start < t_end returns for each office the
\* seconds per state counted by hand over the window and sec_total =
\* t_end - t_start; an office without a row has no second of the window
C11_Step ==
    (/\ resp'.op = "sla"
     /\ {"t_start", "t_end"} \subseteq DOMAIN resp'.req
     /\ resp'.req.t_start < resp'.req.t_end
     /\ SubmittedIncreasing)
    => \A o \in Rows(db_offices) :
          Admits(resp'.req, o.name) =>
             LET a == resp'.req.t_start
                 b == resp'.req.t_end
             IN IF RowsOf(o.name) = {}
                THEN \A st \in States : RefSeconds(o.id, st, a, b) = 0
                ELSE \A r \in RowsOf(o.name) :
                        /\ r.sec_up = RefSeconds(o.id, "up", a, b)
                        /\ r.sec_deg = RefSeconds(o.id, "degraded", a, b)
                        /\ r.sec_down = RefSeconds(o.id, "down", a, b)
                        /\ r.sec_total = b - a

\* the example of the claim: changes (0, down), (30, degraded), (90, up) over
\* [10, 150] give 20 down, 60 degraded, 60 up of 140
C11_Example ==
    (/\ resp.op = "sla"
     /\ resp.req = [office |-> "HQ", t_start |-> 10, t_end |-> 150]
     /\ \E o \in Rows(db_offices) :
           /\ o.name = "HQ"
           /\ {<<r.at_ts, r.to_state>> : r \in ChangesOf(o.id)}
                 = {<<0, "down">>, <<30, "degraded">>, <<90, "up">>})
    => /\ Len(resp.sla) = 1
       /\ resp.sla[1].sec_down = 20
       /\ resp.sla[1].sec_deg = 60
       /\ resp.sla[1].sec_up = 60
       /\ resp.sla[1].sec_total = 140

C11_SlaRoundTrip == [][C11_Step]_vars /\ []C11_Example

\* C12: in every row of every result the three sums add up to at most
\* sec_total, and to exactly sec_total if and only if the office has a change
\* at or before the t_start of the query
C12_Step ==
    resp'.op = "sla" =>
       \A o \in Rows(db_offices) : \A r \in RowsOf(o.name) :
          LET w == Requested(resp'.req, resp'.clock)
              covered == r.sec_up + r.sec_deg + r.sec_down
          IN /\ covered <= r.sec_total
             /\ (covered = r.sec_total)
                   <=> (\E c \in ChangesOf(o.id) : c.at_ts <= w.t_start)

C12_SumWithinTotal == [][C12_Step]_vars

\* C13: in every row of every result, 0 <= uptime_strict <= uptime_lenient <= 1
C13_Step ==
    resp'.op = "sla" =>
       \A i \in 1..Len(resp'.sla) :
          /\ 0 <= resp'.sla[i].uptime_strict
          /\ resp'.sla[i].uptime_strict <= resp'.sla[i].uptime_lenient
          /\ resp'.sla[i].uptime_lenient <= 1000000

C13_UptimeOrdered == [][C13_Step]_vars

\* a result with a row whose ratios differ and are not whole, over a window
\* that starts after a span of the office ended
C13_Witness ==
    /\ resp.op = "sla"
    /\ \E i \in 1..Len(resp.sla) :
          /\ 0 < resp.sla[i].uptime_strict
          /\ resp.sla[i].uptime_strict < resp.sla[i].uptime_lenient
          /\ resp.sla[i].uptime_strict % 1000 # 0
    /\ \E c1, c2 \in Rows(state_changes) :
          /\ c1.office_id = c2.office_id
          /\ c1.at_ts < c2.at_ts
          /\ c2.at_ts <= resp.window.t_start

\* C14: for every office in a result, current_state, current_at and
\* previous_state are the to_state, at_ts and from_state of its stored change
\* with the greatest at_ts <= the t_end of the query (a change stamped exactly
\* t_end included)
C14_Step ==
    resp'.op = "sla" =>
       \A o \in Rows(db_offices) : \A r \in RowsOf(o.name) :
          LET w == Requested(resp'.req, resp'.clock)
              past == {c \in ChangesOf(o.id) : c.at_ts <= w.t_end}
          IN /\ past # {}
             /\ \E m \in past :
                   /\ \A c \in past : c.at_ts <= m.at_ts
                   /\ r.current_state = m.to_state
                   /\ r.current_at = m.at_ts
                   /\ r.previous_state = m.from_state

C14_CurrentFromLatest == [][C14_Step]_vars

\* office n has a change that overlaps window w
Overlaps(n, w) ==
    /\ w.t_start < w.t_end
    /\ \E o \in Rows(db_offices) :
          o.name = n /\ \E c \in ChangesOf(o.id) : c.at_ts < w.t_end

\* C15: a query answers 200 and leaves the store as it was; an office with no
\* change overlapping the window of the query, a registered office with no
\* change at all, and an unregistered office named by the filter have no row
C15_Step ==
    resp'.op = "sla" =>
       /\ resp'.status = 200
       /\ db_offices' = db_offices
       /\ state_changes' = state_changes
       /\ samples' = samples
       /\ \A n \in {"HQ", "Remote", "UNKNOWN"} :
             ~Overlaps(n, Requested(resp'.req, resp'.clock)) => RowsOf(n) = {}
       /\ ("office" \in DOMAIN resp'.req
              /\ SelectOfficeId(db_offices, resp'.req.office) = {})
             => resp'.sla = <<>>

C15_NoHistoryNoRow == [][C15_Step]_vars

(***************************************************************************)
(* The limiter (SpecLimiter).                                              *)
(***************************************************************************)
\* the probes in flight: the limited_ping tasks inside `async with limiter`
InFlight == {p \in (DOMAIN pings) \X Kinds : pings[p[1]][p[2]] \in {"ping", "cancelling"}}

Queued == {limiter.waiters[i] : i \in 1..Len(limiter.waiters)}

C17_Step ==
    /\ \A n \in DOMAIN tasks :
          (/\ tasks[n].pc = "post"
           /\ tasks'[n].pc # "post"
           /\ pj'.outcome # "ok")
          => /\ pj'.caller = "probe"
             /\ pj'.ends = "returns"
             /\ offices' = offices
             /\ offices'[n].state = tasks[n].post.payload.state
             /\ offices'[n].fail_streak = 0
             /\ offices'[n].ok_streak = 0
             /\ tasks'[n].pc = "sleep"
             /\ ticker' = ticker
    /\ (/\ ticker.pc = "post"
        /\ ticker'.pc # "post"
        /\ pj'.outcome # "ok")
       => /\ pj'.caller = "ticker"
          /\ pj'.ends = "returns"
          /\ ticker'.pc = "wait"
          /\ offices' = offices
          /\ tasks' = tasks

\* no task of the monitor has ended with an exception
C17_Alive ==
    /\ ticker.pc # "dead"
    /\ \A n \in DOMAIN tasks : tasks[n].pc # "dead"

TestMaxRetries == 2

\* C20: a call of post_json all of whose POST attempts failed made max_retries
\* attempts, logged an error naming the office, the path and the attempt
\* number, and raised
C20_RetriesLogsRaises ==
    (pj.caller # "none" /\ pj.outcome # "ok")
    => /\ pj.attempts = TestMaxRetries
       /\ \E i \in 1..Len(pj.logged) :
             /\ pj.logged[i].path = pj.path
             /\ pj.logged[i].attempt = pj.attempts
             /\ "office" \in DOMAIN pj.logged[i]
       /\ pj.ends = "raises"

(***************************************************************************)
(* The timestamps of the events of an office (SpecClock).                  *)
(***************************************************************************)
\* the at of the events office n has emitted, in order of emission
Emitted(n) ==
    LET commits == SelectSeq(hist[n], LAMBDA e : e.changed)
    IN [i \in 1..Len(commits) |-> commits[i].at]

\* C18: the at of the successive events of an office are strictly
\* increasing, and the store inserts every event that reaches it
C18_StrictlyIncreasingAt ==
    /\ \A n \in DOMAIN hist :
          \A i, j \in 1..Len(Emitted(n)) : i < j => Emitted(n)[i] < Emitted(n)[j]
    /\ resp.op = "state_change" => resp.inserted = 1

(***************************************************************************)
(* A malformed snapshot of offices.yaml (SpecWatch).                       *)
(***************************************************************************)
\* the snapshot is not a mapping with a list of named office records
Malformed(c) ==
    \/ c.form # "mapping"
    \/ \E i \in 1..Len(c.offices) : "name" \notin DOMAIN c.offices[i]

\* the watcher has woken up on a malformed snapshot it has not loaded yet
PollsMalformed ==
    /\ watcher.pc = "sleep"
    /\ file.exists /\ Malformed(file.content)
    /\ ~watcher.seen \/ file.mtime > watcher.last_mtime

\* the watcher's pass over a malformed snapshot skips reconciliation: the
\* manager is as before and the watcher is back in its sleep
C19_Step ==
    (PollsMalformed /\ watcher' # watcher) =>
        /\ watcher'.pc = "sleep"
        /\ UNCHANGED <<offices, tasks, hashes, cancelled>>

\* the watcher keeps polling and no live office loses its probe task
C19_Polling ==
    /\ watcher.pc \in {"sleep", "reconcile"}
    /\ \A n \in DOMAIN tasks : tasks[n].id \notin cancelled /\ tasks[n].pc # "dead"

\* C19: when offices.yaml changes to a malformed snapshot, reconciliation is
\* skipped: the live offices, the probe tasks and the runtime fields stay as
\* they were, and the watcher task keeps polling
C19_MalformedSkipped == []C19_Polling /\ [][C19_Step]_vars

(***************************************************************************)
(* The classification of a sample (SpecDebounce).                          *)
(***************************************************************************)
\* the classification the last cycle of office n made of the sample it took
Classified(n) == hist[n][Len(hist[n])].n

\* C21: instant_state classifies the sample (gw, mx, ipsec) as down iff
\* neither gw nor mx answered, degraded iff (gw or mx) and not ipsec, up iff
\* (gw or mx) and ipsec; it is one of up, degraded, down, never unknown
C21_InstantState ==
    \A n \in DOMAIN offices :
        hist[n] # <<>> =>
            LET s == offices[n].last_sample
                c == Classified(n)
            IN /\ c \in {"up", "degraded", "down"}
               /\ c = "down" <=> (~s.gateway /\ ~s.mx)
               /\ c = "degraded" <=> ((s.gateway \/ s.mx) /\ ~s.ipsec)
               /\ c = "up" <=> ((s.gateway \/ s.mx) /\ s.ipsec)

\* a sample with the gateway silent and the MX answering, classified up
C21_Witness ==
    /\ hist["HQ"] # <<>>
    /\ ~offices["HQ"].last_sample.gateway
    /\ offices["HQ"].last_sample.mx
    /\ offices["HQ"].last_sample.ipsec
    /\ Classified("HQ") = "up"

(***************************************************************************)
(* The committed transitions of the debounce machine (SpecDebounce).       *)
(***************************************************************************)
\* the step is a probe cycle of office n that set `changed`
CommitsNow(n) ==
    /\ Len(hist'[n]) = Len(hist[n]) + 1
    /\ hist'[n][Len(hist'[n])].changed

\* the step puts a state-change event of office n in flight
Emits(n) == tasks[n].pc # "post" /\ tasks'[n].pc = "post"

C22_Step ==
    \A n \in (DOMAIN offices) \cap (DOMAIN offices') :
        /\ CommitsNow(n) <=> offices'[n].state # offices[n].state
        /\ CommitsNow(n) <=> Emits(n)
        /\ CommitsNow(n) =>
              /\ offices'[n].state \in {"up", "degraded", "down"}
              /\ offices'[n].fail_streak = 0
              /\ offices'[n].ok_streak = 0
              /\ tasks'[n].post.path = "/ingest/state_change"
              /\ tasks'[n].post.payload.office = n
              /\ tasks'[n].post.payload.state = offices'[n].state
        /\ offices[n].state # "unknown" => offices'[n].state # "unknown"

\* C22: a committed transition takes the confirmed state to another one of
\* up, degraded, down, leaves both streak counters at zero and emits exactly
\* one state-change event carrying the new state; a confirmed state that has
\* left unknown never returns to unknown
C22_CommitInvariants == [][C22_Step]_vars

\* a failure committed from confirmed up after successes were counted
C22_Witness ==
    /\ tasks["HQ"].pc = "post"
    /\ Len(hist["HQ"]) >= 3
    /\ LET e == hist["HQ"][Len(hist["HQ"])]
           b == hist["HQ"][Len(hist["HQ"]) - 1]
       IN /\ e.changed /\ e.from = "up" /\ e.n = "down"
          /\ ~b.changed /\ b.n = "up" /\ b.from = "up"

(***************************************************************************)
(* The probe task of a removed office after its cancel (SpecRemoval).      *)
(***************************************************************************)
\* the limited_ping tasks of task tid that hold a slot
Flying(tid) ==
    IF tid \in DOMAIN pings
    THEN {k \in Kinds : pings[tid][k] \in {"ping", "cancelling"}}
    ELSE {}

C23_Step ==
    \A tid \in DOMAIN orphans :
        /\ tid \in DOMAIN orphans'
        /\ orphans'[tid].office = orphans[tid].office
        /\ orphans'[tid].post \in {orphans[tid].post, None}
        /\ orphans'[tid].pc \in {orphans[tid].pc, "dead"}
        /\ Flying(tid) # {} =>
              /\ orphans'[tid] = orphans[tid]
              /\ \A k \in Kinds : tid \in DOMAIN pings' => pings'[tid][k] \notin {"ok", "fail"}
                                                           \/ pings'[tid][k] = pings[tid][k]

\* a cancelled task is the task of no live office
C23_Detached ==
    \A tid \in DOMAIN orphans :
        /\ tid \in cancelled
        /\ \A n \in DOMAIN tasks : tasks[n].id # tid

\* C23: once reconcile has removed an office, its cancelled probe task
\* changes no runtime field and puts no further state-change event in
\* flight, also when its three pings were in flight at the removal and end
\* afterwards: their results are not used
C23_RemovedTaskInert == []C23_Detached /\ [][C23_Step]_vars

\* the office was removed while its three pings were in flight and is live
\* again under a new task; one ping of the cancelled task has yet to end
C23_Witness ==
    \E tid \in DOMAIN orphans :
        /\ orphans[tid].pc = "gather"
        /\ orphans[tid].name \in DOMAIN tasks
        /\ tasks[orphans[tid].name].id # tid
        /\ tid \in DOMAIN pings
        /\ \E k \in Kinds : /\ pings[tid][k] = "cancelling"
                             /\ \A j \in Kinds \ {k} : pings[tid][j] = "cancelled"
        /\ limiter.value = limiter.capacity - 1

(***************************************************************************)
(* Progress under the limiter (SpecFair).                                  *)
(***************************************************************************)
PingIs(t, k, st) == t \in DOMAIN pings /\ pings[t][k] = st

\* a ping leaves the queue only as the first of the queue
C24_InOrder ==
    \A t \in TaskIdsOfRun, k \in Kinds :
        (PingIs(t, k, "wait") /\ ~PingIs(t, k, "wait")') =>
            /\ PingIs(t, k, "ping")'
            /\ Head(limiter.waiters) = <<t, k>>

\* every cycle that was started is in its gather or has classified its sample
C24_NoneSkipped ==
    Len(hist["HQ"]) + Len(hist["Remote"])
      + Cardinality({n \in OfficeNames : tasks[n].pc = "gather"})
    = MaxFairCycles - budget.cycles

\* the run has made every cycle it allows and every task is back in its sleep
C24_AllMade ==
    /\ budget.cycles = 0
    /\ pings = EmptyDict
    /\ limiter.waiters = <<>>
    /\ \A n \in OfficeNames : tasks[n].pc = "sleep"

EventOf(r) ==
    [office |-> (CHOOSE o \in Rows(db_offices) : o.id = r.office_id).name,
     state |-> r.to_state,
     sample |-> [gateway |-> r.sample_gateway = 1, mx |-> r.sample_mx = 1,
                 ipsec |-> r.sample_ipsec = 1],
     at |-> r.at_ts]

\* the accepted events in the order they arrived: rowid order
Arrived == [i \in 1..Len(state_changes) |-> EventOf(state_changes[i])]

Perms(n) == {f \in [1..n -> 1..n] : \A i, j \in 1..n : f[i] = f[j] => i = j}

\* the database after the events evs are posted one after the other
RECURSIVE Replay(_, _)
Replay(db, evs) ==
    IF evs = <<>> THEN db
    ELSE Replay(ingest_state_change(db, Head(evs)).db, Tail(evs))

\* the database had the same events arrived in the order f
Reordered(f) ==
    Replay([Db EXCEPT !.state_changes = <<>>],
           [i \in 1..Len(state_changes) |-> Arrived[f[i]]])

Triples(t) == {<<r.office_id, r.at_ts, r.to_state>> : r \in Rows(t)}

\* the fields of an SLA row the claim is about
OrderFree(rows) ==
    [i \in 1..Len(rows) |->
        [office |-> rows[i].office, sec_up |-> rows[i].sec_up,
         sec_deg |-> rows[i].sec_deg, sec_down |-> rows[i].sec_down,
         current_state |-> rows[i].current_state,
         current_at |-> rows[i].current_at]]

\* C25: had the accepted state changes (pairwise distinct in office and at)
\* arrived in any other order, the store would hold the same set of
\* (office, at_ts, to_state), and the SLA query just answered would report the
\* same sec_up, sec_deg, sec_down, current_state and current_at
C25_ArrivalOrderFree ==
    \A f \in Perms(Len(state_changes)) :
        LET db2 == Reordered(f)
        IN /\ Triples(db2.state_changes) = Triples(state_changes)
           /\ resp.op = "sla" =>
                 \E pick \in SamplePicks(db2, resp.window.t_end) :
                    OrderFree(sla(db2, resp.req, resp.clock, pick).resp.sla)
                      = OrderFree(resp.sla)

\* the changes at 90, 0 and 30 arrived in that order, and the query over
\* [10, 150) reports 20 s down, 60 s degraded and 60 s up
C25_Witness ==
    /\ resp.op = "sla"
    /\ Len(state_changes) = 3
    /\ state_changes[1].at_ts = 90
    /\ state_changes[2].at_ts = 0
    /\ state_changes[3].at_ts = 30
    /\ resp.window = [t_start |-> 10, t_end |-> 150]
    /\ Len(resp.sla) = 1
    /\ resp.sla[1].sec_down = 20
    /\ resp.sla[1].sec_deg = 60
    /\ resp.sla[1].sec_up = 60

(***************************************************************************)
(* The history kept by the store (SpecPipeline).                           *)
(***************************************************************************)
Prefix(a, b) == Len(a) <= Len(b) /\ \A i \in 1..Len(a) : b[i] = a[i]

\* the step is a call of reconcile
ReconcileCalled == rc.pc = "idle" /\ budget'.reloads < budget.reloads

\* the offices the call of reconcile removes
RemovedByCall == (DOMAIN offices) \ Names(rc'.cfg)

C26_Step ==
    /\ Prefix(state_changes, state_changes')
    /\ Prefix(samples, samples')
    /\ Len(db_offices) <= Len(db_offices')
    /\ \A i \in 1..Len(db_offices) :
          /\ db_offices'[i].id = db_offices[i].id
          /\ db_offices'[i].name = db_offices[i].name
    /\ budget'.calls < budget.calls =>
          /\ db_offices' = db_offices
          /\ state_changes' = state_changes
          /\ samples' = samples
    /\ ReconcileCalled =>
          /\ db_offices' = db_offices
          /\ state_changes' = state_changes
          /\ samples' = samples
          /\ resp' = resp
          /\ \A n \in RemovedByCall :
                /\ n \notin DOMAIN tasks'
                /\ rc'.post = None \/ rc'.post.payload.name # n
                /\ \A q \in PipeQueries :
                      \A pick \in SamplePicks(Db, Window(q, 200).t_end) :
                          sla(Db', q, 200, pick).resp = sla(Db, q, 200, pick).resp

Unsampled(e) == "ts" \notin DOMAIN e

\* the rows the answered tick added to samples
AddedSamples == {samples'[j] : j \in (Len(samples) + 1)..Len(samples')}

C27_Step ==
    (/\ ticker.pc = "post"
     /\ ticker'.pc = "wait"
     /\ \E i \in 1..Len(ticker.post.payload) : Unsampled(ticker.post.payload[i]))
    => LET batch == ticker.post.payload
       IN /\ \A i \in 1..Len(batch) :
                Unsampled(batch[i]) =>
                    /\ batch[i].state = "unknown"
                    /\ DOMAIN batch[i] = {"office", "state"}
          /\ resp'.op = "tick"
          /\ resp'.status = 200
          /\ \A i \in 1..Len(batch) :
                ~Unsampled(batch[i]) =>
                    \E r \in AddedSamples :
                        /\ r.office_id \in SelectOfficeId(db_offices, batch[i].office)
                        /\ r.ts = batch[i].ts

\* C27: a tick taken while a live office has not been sampled reports that
\* office as unknown and without gateway, mx and ipsec, the API accepts the
\* batch, and it stores a sample for every office of the batch that has
\* been sampled
C27_UnsampledTickAccepted == [][C27_Step]_vars

(***************************************************************************)
(* The upsert of a new office and its first events (SpecPipeline).         *)
(***************************************************************************)
\* reconcile awaits the /offices post of the office n it has just added
UpsertPending(n) ==
    rc.pc = "await" /\ rc.op = "add" /\ rc.post.payload.name = n

\* C28: the probe task of a new office posts no state change while the
\* upsert of the office is awaited, and the API rejects no state change of
\* the monitor as Unknown office
C28_UpsertBeforeEvents ==
    /\ \A n \in DOMAIN tasks : tasks[n].pc = "post" => ~UpsertPending(n)
    /\ ~(resp.op = "state_change" /\ resp.status = 400)

(***************************************************************************)
(* The window of an SLA query (SpecSla).                                   *)
(***************************************************************************)
\* C29: the window a query reports, and the sec_total of its rows, are those
\* of the bounds the caller supplied, 0 included; the defaults t_end = now
\* and t_start = t_end - 86400 stand in for an omitted bound only
C29_WindowAsSupplied ==
    resp.op = "sla" =>
        LET w == Requested(resp.req, resp.clock)
        IN /\ resp.window = w
           /\ \A i \in 1..Len(resp.sla) :
                 resp.sla[i].sec_total = w.t_end - w.t_start

(***************************************************************************)
(* Reconcile of unchanged content (SpecReload).                            *)
(***************************************************************************)
\* the step belongs to reconcile: its call, or its resumption after a post
ReconcileRan == budget'.reloads < budget.reloads \/ rc' # rc

\* the live offices whose record in the snapshot hashes as recorded
SameContent(cfg) ==
    {n \in DOMAIN offices :
        \E i \in 1..Len(cfg.offices) :
            /\ cfg.offices[i].name = n
            /\ hashes[n] = hash_office_record(cfg.offices[i])}

C30_Step ==
    ReconcileRan =>
        LET same == SameContent(rc'.cfg)
        IN /\ \A n \in same :
                 /\ n \in DOMAIN offices'
                 /\ offices'[n] = offices[n]
                 /\ tasks'[n] = tasks[n]
                 /\ hashes'[n] = hashes[n]
                 /\ hist'[n] = hist[n]
                 /\ tasks[n].id \notin cancelled'
                 /\ rc'.post = None \/ rc'.post.payload.name # n
           /\ (same = DOMAIN offices /\ same = Names(rc'.cfg)) =>
                 /\ offices' = offices
                 /\ tasks' = tasks
                 /\ hashes' = hashes
                 /\ cancelled' = cancelled
                 /\ next_tid' = next_tid
                 /\ rc'.pc = "idle"
                 /\ rc'.post = None

\* the hash of a record is in _hashes from the moment its add or update is
\* applied: while the post is awaited, and when reconcile has returned
C30_HashRecorded ==
    /\ rc.pc = "await" =>
          /\ rc.post.payload.name \in DOMAIN hashes
          /\ hashes[rc.post.payload.name] = hash_office_record(rc.post.payload)
    /\ rc.pc = "idle" =>
          /\ DOMAIN hashes = Names(rc.cfg)
          /\ \A i \in 1..Len(rc.cfg.offices) :
                hashes[rc.cfg.offices[i].name] = hash_office_record(rc.cfg.offices[i])

\* omitted thresholds hash as the defaults 2 and 1 spelled out
C30_DefaultsAlike ==
    \A n \in OfficeNames :
        /\ hash_office_record(BaseRec(n)) = hash_office_record(WithRetries(BaseRec(n), 2, 1))
        /\ hash_office_record(BaseRec(n)) # hash_office_record(WithRetries(BaseRec(n), 1, 2))

\* C30: a step of reconcile leaves every live office whose record hashes as
\* recorded as it is (runtime record, probe task, hash), cancels and starts
\* no task for it and prepares no upsert of it, and a snapshot made of such
\* offices only changes nothing at all; omitted thresholds hash as 2 and 1;
\* the hash is recorded when the add or update is applied, before and
\* whatever the outcome of the post
C30_UnchangedIsNoOp ==
    /\ [][C30_Step]_vars
    /\ []C30_HashRecorded
    /\ []C30_DefaultsAlike

\* HQ was added by the first reconcile and has a confirmed state; the second
\* reconcile, of a snapshot that spells out the default thresholds, has
\* returned with HQ under the task it had
C30_Witness ==
    /\ rc.pc = "idle"
    /\ rc.cfg.offices = <<WithRetries(BaseRec("HQ"), 2, 1)>>
    /\ budget.reloads = MaxReloadCalls - 2
    /\ DOMAIN offices = {"HQ"}
    /\ tasks["HQ"].id = 1
    /\ next_tid = 2
    /\ cancelled = {}
    /\ offices["HQ"].state = "up"
    /\ offices["HQ"].last_sample # EmptyDict
====
